---- MODULE Spec2Model ----
(***************************************************************************)
(* The PDF generation pipeline of the CV service: PDFGeneratorService      *)
(* (generatePDF, generatePDFInternal, loadTemplate, the font cache), the   *)
(* controller that calls it and the error middleware that turns a thrown   *)
(* error into the HTTP response.                                           *)
(*                                                                         *)
(* Node runs the code between two awaits without interruption, so an       *)
(* action is the settling of one awaited operation together with the       *)
(* synchronous code up to the next await.  An await of a value that is     *)
(* already available (a cache hit) is folded into the same action: the     *)
(* code that follows reads the shared caches only, and those reads commute *)
(* with every step of the other requests that could run in between.        *)
(*                                                                         *)
(* CVProcessorService.process and the functions of utils/sanitize are pure *)
(* functions of the raw record.  SpecCV applies process to raw records     *)
(* drawn from a bounded set, and once more to the projection it returned;  *)
(* a string is the sequence of its characters.                             *)
(***************************************************************************)
EXTENDS Integers, Sequences, FiniteSets, TLC

\* ------------------------------------------------------------------------
\* Bounds of the model
\* ------------------------------------------------------------------------
\* requests handled by the process
NumCalls == 2
\* largest configured PDF_RETRY_ATTEMPTS
MaxRetry == 1
\* font files of getFontsBase64 that are modelled (the code lists six)
NumFonts == 2
\* failures of external operations (browser, page, font files) in one run
MaxFaults == 2
\* longest raw value made of arbitrary characters
MaxLen == 2
\* keys set in a raw record that has several keys set
MaxFields == 2
\* HTTP requests the application receives
NumRequests == 2
\* largest configured RATE_LIMIT_MAX_REQUESTS
MaxRateLimit == 2
\* lines of the texts handed to boldFirstLine
MaxLines == 4
\* steps of the clock in one forced-shutdown delay
TicksPerTimeout == 3
\* steps of the clock before the first signal
MaxIdleTicks == 2
\* connections open at the same time
MaxPending == 2
\* signals the process receives
MaxSignals == 2
\* setTimeout(..., 30000) in gracefulShutdown
ForceShutdownMs == 30000

Calls == 1..NumCalls
Requests == 1..NumRequests
Fonts == 1..NumFonts

\* ------------------------------------------------------------------------
\* Configuration (src/src/config/index.ts)
\* ------------------------------------------------------------------------
\* a JavaScript number as parseInt returns it: an integer or NaN
Num(n) == [nan |-> FALSE, n |-> n]
NaN == [nan |-> TRUE, n |-> 0]
\* the values config.pdfRetryAttempts can take
RetryConfigs == {Num(n) : n \in -1..MaxRetry} \cup {NaN}
\* a < m on JavaScript numbers, a an integer
Less(a, m) == ~m.nan /\ a < m.n
\* a >= m on JavaScript numbers, a an integer
Geq(a, m) == ~m.nan /\ a >= m.n
\* config.templateName
templateName == "option-premium-clean.hbs"
TemplateNames == {templateName}
\* maxRetries of the readiness poll
maxRetries == 5
\* the wait of the catch block after a dropped connection, in ms
ConnectionWaitMs == 2000
\* the wait of the catch block before the next attempt, in ms
BackoffMs == 1000

\* ------------------------------------------------------------------------
\* Errors
\* ------------------------------------------------------------------------
\* body: the error has a 'body' property, as the errors of the JSON parser do
NoError == [name |-> "none", statusCode |-> 0, message |-> "", body |-> FALSE]
Error(msg) == [name |-> "Error", statusCode |-> 0, message |-> msg, body |-> FALSE]
AppError(code, msg) == [name |-> "AppError", statusCode |-> code, message |-> msg, body |-> FALSE]

\* errors the rendering engine raises
TimeoutError == [name |-> "TimeoutError", statusCode |-> 0, message |-> "Navigation timeout exceeded", body |-> FALSE]
ConnectionClosedError == [name |-> "ConnectionClosedError", statusCode |-> 0, message |-> "Connection closed.", body |-> FALSE]
ProtocolError == [name |-> "ProtocolError", statusCode |-> 0, message |-> "Protocol error: Connection closed", body |-> FALSE]
LaunchError == Error("Failed to launch the browser process")
ExternalErrors == {TimeoutError, ConnectionClosedError, ProtocolError}
LaunchErrors == {LaunchError, TimeoutError}

\* errors generatePDFInternal raises itself
NotConnectedError == Error("Browser is not connected after launch")
DisconnectedError == Error("Browser disconnected during initialization")
NotReadyError == Error("Browser not ready after initialization")
ConnectionLostError == Error("Browser connection lost before creating page")
PageTimeoutError == Error("Page creation timeout")
RenderError == Error("Template rendering failed")
\* the error of fs.readFile on a font file
FontReadError == Error("ENOENT: no such file or directory")
TemplateLoadError == AppError(500, "Failed to load template: option-premium-clean.hbs")

\* errors express.json passes on: a body that is not JSON, a body over the
\* size limit
JsonSyntaxError == [name |-> "SyntaxError", statusCode |-> 400, message |-> "Unexpected token in JSON", body |-> TRUE]
PayloadTooLargeError == [name |-> "PayloadTooLargeError", statusCode |-> 413, message |-> "request entity too large", body |-> FALSE]

\* errors generatePDF raises
GenerationFailed == AppError(500, "Failed to generate PDF. Please try again later.")
GenerationFallback == AppError(500, "Failed to generate PDF")

\* the messages m with m.includes('Connection closed')
ConnectionClosedMessages == {"Connection closed.", "Protocol error: Connection closed"}

\* every error a step below generatePDF can raise
LowLevelErrors ==
  ExternalErrors \cup LaunchErrors \cup
  {NotConnectedError, DisconnectedError, NotReadyError, ConnectionLostError,
   PageTimeoutError, RenderError, TemplateLoadError}

\* ------------------------------------------------------------------------
\* State
\* ------------------------------------------------------------------------
VARIABLES
  pdfRetryAttempts, \* config.pdfRetryAttempts
  st,               \* per request: the position and locals of generatePDF
  browsers,         \* the browser instances by id: who launched it, its state
  templateCache,    \* PDFGeneratorService.templateCache
  fontCache,        \* fontCache: the fonts whose payload is cached
  templateFile,     \* the template source on disk: "missing", "bad" or "ok"
  reads,            \* fs.readFile calls on the template source so far
  compiles,         \* templates handlebars.compile has returned so far
  faults,           \* failures of external operations so far
  fontWarnings,     \* 'Failed to load font' warnings the logger has taken
  fontReads,        \* the fonts for which an fs.readFile has settled
  data,             \* the raw record (CVData) handed to CVProcessorService.process
  processed,        \* the projection (ProcessedCVData) process returned
  pass,             \* calls of process made on this record and its projection
  templateData,     \* the render-time context built from the projection
  apiKey,           \* config.apiKey
  rateLimitMaxRequests, \* config.rateLimitMaxRequests
  hits,             \* requests the rate limiter has counted in its window
  reqs,             \* per HTTP request: what was sent, the handlers it ran, the answer
  text,             \* the argument a template hands to a Handlebars helper
  helper,           \* the helper the template has called on it, "none" before
  output,           \* what the helper returned
  proc,             \* the server process: http server, timers, signals, exit
  reqBody,          \* req.body as express.json parsed it
  validation        \* what validateRequest(cvSchema) made of it

\* the state of the PDF generator
pdfVars == <<pdfRetryAttempts, st, browsers, templateCache, fontCache, templateFile, reads, compiles, faults, fontWarnings, fontReads>>
\* the state of the CV processor
cvVars == <<data, processed, pass, templateData>>
\* the state of the Express application
httpVars == <<apiKey, rateLimitMaxRequests, hits, reqs>>
\* the state of a call of a Handlebars helper
helperVars == <<text, helper, output>>
\* the state of the server process
serverVars == <<proc>>
\* the state of validateRequest on the CV routes
validationVars == <<reqBody, validation>>
vars == <<pdfRetryAttempts, st, browsers, templateCache, fontCache, templateFile, reads, compiles, faults, fontWarnings, fontReads, data, processed, pass, templateData,
          apiKey, rateLimitMaxRequests, hits, reqs, text, helper, output, proc, reqBody, validation>>

\* browser names set aside per request: one per attempt, and one to spare
NamesPerCall == MaxRetry + 2
\* ids of browser instances
BrowserIds == 1..(NumCalls * NamesPerCall)
NoOwner == <<0, 0>>
NoBrowser == [owner |-> NoOwner, running |-> FALSE, page |-> "none"]

\* ------------------------------------------------------------------------
\* JavaScript values and strings of the CV processor
\* ------------------------------------------------------------------------
\* a string is the sequence of its characters
undefined == [kind |-> "undefined", s |-> <<>>]
null == [kind |-> "null", s |-> <<>>]
Str(s) == [kind |-> "string", s |-> s]

\* the keys of CVData
TitleKeys == <<"cv_format_type_full_1", "cv_format_type_full_2", "cv_format_type_full_3",
               "cv_format_type_full_4", "cv_format_type_full_5">>
DurationKeys == <<"job_duration_1", "job_duration_2", "job_duration_3",
                  "job_duration_4", "job_duration_5">>
DutiesKeys == <<"job_duties_1", "job_duties_2", "job_duties_3", "job_duties_4", "job_duties_5">>
ReferenceKeys == <<"reference_1", "reference_2", "reference_3", "reference_4", "reference_5">>
WorkExperienceKeys == <<"work_experience_1", "work_experience_2", "work_experience_3",
                        "work_experience_4", "work_experience_5">>
Range(q) == {q[i] : i \in 1..Len(q)}
Slots == 1..5
CVDataKeys ==
  {"full_name", "designation", "phone", "email", "physical_address", "photo_url",
   "splash_image", "career_goal", "education_matric", "tertiary_education",
   "certificates", "other_qualifications", "skills", "languages",
   "additional_experience"}
  \cup Range(TitleKeys) \cup Range(DurationKeys) \cup Range(DutiesKeys) \cup Range(ReferenceKeys)

\* the keys of ProcessedCVData
ProcessedKeys ==
  {"full_name", "designation", "phone", "email", "physical_address", "photo_url",
   "splash_image", "phone_centered", "contentMode", "career_goal", "education_matric",
   "tertiary_education", "training_certificates_heading", "training_cert_bullet",
   "other_qualifications_bullet", "skills", "languages",
   "Additional_Experience_heading", "additional_experience"}
  \cup Range(WorkExperienceKeys) \cup Range(ReferenceKeys)

\* keys a raw record can carry that CVData does not name: one that no
\* interface knows, one that ProcessedCVData names and one that the fonts use
ExtraKeys == {"id_number", "work_experience_1", "openSansRegular"}
\* the keys of a raw record
RawKeys == CVDataKeys \cup ExtraKeys
\* the keys of the object getFontsBase64 returns
FontKeys ==
  {"openSansRegular", "openSansBold", "openSansSemibold",
   "ralewayRegular", "ralewayBold", "ralewaySemibold"}

\* a record none of whose keys is set, the projection before process ran
\* and the context before it is built
NoData == [k \in RawKeys |-> undefined]
NoProjection == [k \in ProcessedKeys |-> undefined]
NoContext == [k \in {} |-> undefined]

NoTemplate == [id |-> 0, good |-> FALSE]
NoResult == [kind |-> "none", bytes |-> 0, error |-> NoError]
NoResponse == [status |-> 0, error |-> "", body |-> 0]

\* ------------------------------------------------------------------------
\* HTTP requests
\* ------------------------------------------------------------------------
\* the value config.apiKey has when API_KEY is not set
DefaultApiKey == "default-dev-key"
\* the values config.apiKey can take
ApiKeys == {DefaultApiKey, "secret"}
\* req.headers['x-api-key']: absent, or the string that was sent
NoHeader == [present |-> FALSE, value |-> ""]
Header(v) == [present |-> TRUE, value |-> v]
HeaderValues == {NoHeader} \cup {Header(v) : v \in {"", "Secret"} \cup ApiKeys}
\* method and path of the requests that are modelled
CVTargets == {"POST /cv/generate", "POST /cv/generate/base64"}
Targets == CVTargets \cup {"GET /health", "GET /cv/generate"}
\* request bodies: not JSON, over the size limit, JSON that the schema
\* rejects, JSON that it accepts
Bodies == {"malformed", "tooLarge", "invalid", "valid"}
\* a request that has not arrived
NoRequest ==
  [pc |-> "none", target |-> "", x_api_key |-> NoHeader, body |-> "",
   trail |-> <<>>, response |-> NoResponse]
\* the state of the application before the first request
NoTraffic ==
  /\ apiKey = DefaultApiKey
  /\ rateLimitMaxRequests = 1
  /\ hits = 0
  /\ reqs = [i \in Requests |-> NoRequest]

\* what a helper has returned before it was called
NoOutput == [branch |-> "none", html |-> <<>>]
\* no template has called a helper
NoHelperCall ==
  /\ text = undefined
  /\ helper = "none"
  /\ output = NoOutput
\* the process after server.listen: no connection, no signal, no timer
Listening ==
  [server |-> "listening", pending |-> 0, listeners |-> 0, timers |-> {},
   cleanups |-> 0, signals |-> <<>>, now |-> 0,
   exited |-> FALSE, exitCode |-> 0, exitBy |-> "none"]
\* no request body has reached validateRequest
NoBody ==
  /\ reqBody = [k \in RawKeys |-> undefined]
  /\ validation = "none"
\* the state outside the PDF generator, the processor and the application
Elsewhere ==
  /\ NoHelperCall
  /\ proc = Listening
  /\ NoBody

\* the state of a request before the controller calls generatePDF.
\* version: the browser whose version() has resolved in this attempt;
\* dropped: the catch block took the last failure for a dropped connection;
\* waited: the ms the catch block has waited since the last failure
IdleCall ==
  [pc |-> "idle", attempts |-> 0, browser |-> 0, page |-> 0, retries |-> 0,
   fontIdx |-> 0, template |-> NoTemplate, err |-> NoError, pdf |-> 0,
   result |-> NoResult, response |-> NoResponse,
   log |-> <<>>, warnings |-> 0,
   pageCloseTried |-> FALSE, loadStarted |-> FALSE,
   version |-> 0, dropped |-> FALSE, waited |-> 0]

Init ==
  /\ pdfRetryAttempts \in RetryConfigs
  /\ st = [c \in Calls |-> IdleCall]
  /\ browsers = [b \in BrowserIds |-> NoBrowser]
  /\ templateCache = [n \in TemplateNames |-> NoTemplate]
  /\ fontCache = {}
  /\ templateFile \in {"missing", "bad", "ok"}
  /\ reads = 0
  /\ compiles = 0
  /\ faults = 0
  /\ fontWarnings = 0
  /\ fontReads = {}
  /\ data = NoData
  /\ processed = NoProjection
  /\ pass = 0
  /\ templateData = NoContext
  /\ NoTraffic
  /\ Elsewhere

\* ------------------------------------------------------------------------
\* errorHandler (error middleware) and the controller's two outcomes
\* ------------------------------------------------------------------------
\* the response errorHandler sends for a thrown error
errorHandler(e) ==
  IF e.name = "AppError"
  THEN [status |-> e.statusCode, error |-> e.message, body |-> 0]
  ELSE IF e.name = "SyntaxError" /\ e.body
  THEN [status |-> 400, error |-> "Invalid JSON in request body", body |-> 0]
  ELSE [status |-> 500, error |-> "Internal server error", body |-> 0]

\* generatePDFInternal is left: its locals go out of scope
outOfScope(s) ==
  [s EXCEPT !.browser = 0, !.page = 0, !.retries = 0, !.fontIdx = 0,
            !.template = NoTemplate, !.pdf = 0,
            !.pageCloseTried = FALSE, !.loadStarted = FALSE, !.version = 0]

\* generatePDF throws e: the controller rethrows it and errorHandler answers
throwToCaller(s, e) ==
  [s EXCEPT !.pc = "done",
            !.result = [kind |-> "error", bytes |-> 0, error |-> e],
            !.response = errorHandler(e)]

\* generatePDF returns the bytes: the controller sends them
returnToCaller(s, bytes) ==
  [s EXCEPT !.pc = "done",
            !.result = [kind |-> "bytes", bytes |-> bytes, error |-> NoError],
            !.response = [status |-> 200, error |-> "", body |-> bytes]]

\* ------------------------------------------------------------------------
\* generatePDF: the retry loop
\* ------------------------------------------------------------------------
\* mutant of maxAttempts: one attempt too many
maxAttemptsOffByOne(r) == IF r.nan THEN NaN ELSE Num(r.n + 2)

\* const maxAttempts = config.pdfRetryAttempts + 1
maxAttempts(r) == IF r.nan THEN NaN ELSE Num(r.n + 1)

\* errorName === 'ConnectionClosedError' || errorMessage.includes('Connection closed')
isConnectionClosed(e) ==
  e.name = "ConnectionClosedError" \/ e.message \in ConnectionClosedMessages

\* mutant of afterConnectionWait: an AppError of a lower step is rethrown
\* as it is instead of being replaced by the generic error
afterConnectionWaitRethrow(s, r) ==
  IF Geq(s.attempts, maxAttempts(r))
  THEN throwToCaller([s EXCEPT !.err = NoError],
                     IF s.err.name = "AppError" THEN s.err ELSE GenerationFailed)
  ELSE [s EXCEPT !.pc = "backoff", !.err = NoError]

\* mutant of afterConnectionWait: the exhaustion test is missing, the loop
\* test alone ends the call
afterConnectionWaitNoTest(s, r) ==
  [s EXCEPT !.pc = "backoff", !.err = NoError]

\* the catch block after the connection wait: give up or back off
afterConnectionWait(s, r) ==
  IF Geq(s.attempts, maxAttempts(r))
  THEN throwToCaller([s EXCEPT !.err = NoError], GenerationFailed)
  ELSE [s EXCEPT !.pc = "backoff", !.err = NoError]

\* await new Promise(resolve => setTimeout(resolve, ms)) has resolved
setTimeout(s, ms) == [s EXCEPT !.waited = @ + ms]

\* mutant of catchBlock: the failure is recorded only once attempts are
\* exhausted
catchBlockQuietRetry(s, r) ==
  LET u == [s EXCEPT !.dropped = isConnectionClosed(s.err), !.waited = 0]
      t == IF Geq(s.attempts, maxAttempts(r)) THEN [u EXCEPT !.warnings = @ + 1] ELSE u
  IN IF isConnectionClosed(s.err)
     THEN [t EXCEPT !.pc = "connectionWait"]
     ELSE afterConnectionWait(t, r)

\* mutant of catchBlock: an AppError of a lower step (the template could not
\* be loaded) ends the call at once
catchBlockGivesUpOnAppError(s, r) ==
  LET t == [s EXCEPT !.warnings = @ + 1, !.dropped = isConnectionClosed(s.err),
                     !.waited = 0]
  IN IF s.err.name = "AppError"
     THEN throwToCaller([t EXCEPT !.err = NoError], GenerationFailed)
     ELSE IF isConnectionClosed(s.err)
     THEN [t EXCEPT !.pc = "connectionWait"]
     ELSE afterConnectionWait(t, r)

\* mutant of catchBlock: a dropped connection is given no wait of its own
catchBlockNoConnectionWait(s, r) ==
  LET t == [s EXCEPT !.warnings = @ + 1, !.dropped = isConnectionClosed(s.err),
                     !.waited = 0]
  IN afterConnectionWait(t, r)

\* the catch block of generatePDF, entered with the attempt's error in s.err
catchBlock(s, r) ==
  LET t == [s EXCEPT !.warnings = @ + 1, !.dropped = isConnectionClosed(s.err),
                     !.waited = 0]
  IN IF isConnectionClosed(s.err)
     THEN [t EXCEPT !.pc = "connectionWait"]
     ELSE afterConnectionWait(t, r)

\* generatePDFInternal has left its finally block: it returns its bytes to
\* generatePDF, which returns them, or its error reaches the catch block
exitAttempt(s, r) ==
  IF s.err = NoError
  THEN returnToCaller(outOfScope([s EXCEPT !.log = Append(@, s.pdf)]), s.pdf)
  ELSE catchBlock(outOfScope([s EXCEPT !.log = Append(@, 0)]), r)

\* mutant of finallyBlock: page and browser are closed on the success path
\* only
finallyBlockOnSuccess(s, r) ==
  IF s.err # NoError THEN exitAttempt(s, r)
  ELSE IF s.page # 0 THEN [s EXCEPT !.pc = "closePage"]
  ELSE IF s.browser # 0 THEN [s EXCEPT !.pc = "closeBrowser"]
  ELSE exitAttempt(s, r)

\* the finally block of generatePDFInternal up to its first await
finallyBlock(s, r) ==
  IF s.page # 0 THEN [s EXCEPT !.pc = "closePage"]
  ELSE IF s.browser # 0 THEN [s EXCEPT !.pc = "closeBrowser"]
  ELSE exitAttempt(s, r)

\* mutant of throwInternal: the error is noted and the next step runs
throwInternalContinue(s, e, r) == [s EXCEPT !.err = e]

\* a step of generatePDFInternal throws e
throwInternal(s, e, r) == finallyBlock([s EXCEPT !.err = e], r)

\* mutant of afterPageClose: the error of page.close() is not caught, it
\* leaves the finally block and replaces the outcome of the attempt
afterPageCloseThrows(s, closed, r) ==
  IF ~closed THEN exitAttempt([s EXCEPT !.err = ProtocolError, !.pdf = 0], r)
  ELSE IF s.browser # 0 THEN [s EXCEPT !.pc = "closeBrowser"]
  ELSE exitAttempt(s, r)

\* the finally block after page.close() has settled: resolved (closed) or
\* rejected, caught and logged, it goes on with the browser
afterPageClose(s, closed, r) ==
  IF s.browser # 0 THEN [s EXCEPT !.pc = "closeBrowser"]
  ELSE exitAttempt(s, r)

\* the loop test, attempts++ and the call of generatePDFInternal up to the
\* await of puppeteer.launch; past the loop, the final throw
whileLoop(s, r) ==
  IF Less(s.attempts, maxAttempts(r))
  THEN [s EXCEPT !.pc = "launch", !.attempts = @ + 1]
  ELSE throwToCaller(s, GenerationFallback)

\* ------------------------------------------------------------------------
\* generatePDFInternal: template, fonts, markup
\* ------------------------------------------------------------------------
\* html = template(templateData); then the await of page.setContent.
\* ok: whether executing a well-formed template succeeds on this data
renderTemplate(s, ok, r) ==
  IF s.template.good /\ ok
  THEN [s EXCEPT !.pc = "setContent"]
  ELSE throwInternal(s, RenderError, r)

\* getFontsBase64 from font i on: cached fonts are returned at once, the
\* first font that is not cached is read from disk
RECURSIVE getFontsBase64(_, _, _, _, _)
getFontsBase64(s, i, fc, ok, r) ==
  IF i > NumFonts THEN renderTemplate(s, ok, r)
  ELSE IF i \in fc THEN getFontsBase64(s, i + 1, fc, ok, r)
  ELSE [s EXCEPT !.pc = "readFont", !.fontIdx = i]

\* mutant of loadFontAsBase64: the error of fs.readFile is not caught
loadFontAsBase64Throws(s, fc, readable, ok, r) ==
  IF readable
  THEN getFontsBase64([s EXCEPT !.fontIdx = 0], s.fontIdx + 1, fc \cup {s.fontIdx}, ok, r)
  ELSE throwInternal([s EXCEPT !.fontIdx = 0], FontReadError, r)

\* loadFontAsBase64 after fs.readFile has settled for font s.fontIdx: the
\* payload is cached and returned, or the error is caught and the payload is
\* the empty string; getFontsBase64 goes on with the next font either way.
\* fc: the font cache before the read
loadFontAsBase64(s, fc, readable, ok, r) ==
  getFontsBase64([s EXCEPT !.fontIdx = 0], s.fontIdx + 1,
                 IF readable THEN fc \cup {s.fontIdx} ELSE fc, ok, r)

\* mutant of loadTemplate: the cache is not consulted
loadTemplateNoLookup(s, cache, fc, ok, r) == [s EXCEPT !.pc = "readTemplate"]

\* loadTemplate up to its first await: a cache hit returns the stored
\* template, a miss starts reading the source
loadTemplate(s, cache, fc, ok, r) ==
  IF cache[templateName].id # 0
  THEN getFontsBase64([s EXCEPT !.template = cache[templateName]], 1, fc, ok, r)
  ELSE [s EXCEPT !.pc = "readTemplate"]

\* mutant of compileAndCache: a failed load is remembered in the cache
compileAndCacheFailure(cache, file, eager, id) ==
  LET compiled == [id |-> id, good |-> (file = "ok")]
  IN [cache |-> [cache EXCEPT ![templateName] = compiled],
      template |-> IF file = "missing" \/ (file = "bad" /\ eager) THEN NoTemplate ELSE compiled,
      failed |-> file = "missing" \/ (file = "bad" /\ eager)]

\* loadTemplate after fs.readFile has settled, for a source in state file:
\* the cache and the template it returns (failed: it throws instead).
\* eager: handlebars.compile rejects a malformed source at once; otherwise it
\* returns a template that fails when it is executed
compileAndCache(cache, file, eager, id) ==
  IF file = "missing" \/ (file = "bad" /\ eager)
  THEN [cache |-> cache, template |-> NoTemplate, failed |-> TRUE]
  ELSE LET compiled == [id |-> id, good |-> (file = "ok")]
       IN [cache |-> [cache EXCEPT ![templateName] = compiled],
           template |-> compiled, failed |-> FALSE]

\* a browser instance that does not exist yet.  Instances are named after
\* the attempt that asks for one (request c, attempt a): any unused name
\* would do, this one keeps the names independent of the order of launches
freshBrowser(bs, owner) ==
  LET id == (owner[1] - 1) * NamesPerCall + owner[2]
  IN IF id \in DOMAIN bs /\ bs[id].owner = NoOwner THEN id
     ELSE CHOOSE b \in DOMAIN bs : bs[b].owner = NoOwner

\* mutant of puppeteerLaunch: one instance is kept and handed to every
\* attempt while it runs
puppeteerLaunchShared(bs, owner) ==
  IF \E b \in DOMAIN bs : bs[b].running
  THEN [browser |-> CHOOSE b \in DOMAIN bs : bs[b].running, browsers |-> bs]
  ELSE LET id == freshBrowser(bs, owner)
       IN [browser |-> id,
           browsers |-> [bs EXCEPT ![id] = [owner |-> owner, running |-> TRUE, page |-> "none"]]]

\* puppeteer.launch resolves: the browser handed to the attempt and the
\* instances that exist afterwards
puppeteerLaunch(bs, owner) ==
  LET id == freshBrowser(bs, owner)
  IN [browser |-> id,
      browsers |-> [bs EXCEPT ![id] = [owner |-> owner, running |-> TRUE, page |-> "none"]]]

\* browser.close() resolves: the instance and its pages are gone
closedBrowser(b) ==
  [b EXCEPT !.running = FALSE, !.page = "none"]

\* ------------------------------------------------------------------------
\* Actions
\* ------------------------------------------------------------------------
\* the readiness poll is left: its counter is not read again
afterPoll(s) == [s EXCEPT !.retries = 0]

\* mutant of versionFailed: the counter is compared with > instead of >=
versionFailedOffByOne(s, r) ==
  IF s.retries + 1 > maxRetries
  THEN throwInternal(afterPoll(s), NotReadyError, r)
  ELSE [s EXCEPT !.retries = @ + 1]

\* mutant of versionFailed: the counter starts again instead of ending the
\* poll
versionFailedStartsAgain(s, r) ==
  [s EXCEPT !.retries = (@ + 1) % maxRetries]

\* browser.version() rejects: retries++, and the poll gives up once the
\* counter has reached maxRetries
versionFailed(s, r) ==
  IF s.retries + 1 >= maxRetries
  THEN throwInternal(afterPoll(s), NotReadyError, r)
  ELSE [s EXCEPT !.retries = @ + 1]

\* browser.version() resolves: the poll is left with the version
versionResolved(s) == [afterPoll(s) EXCEPT !.version = s.browser]

\* the step takes n of the failures the run may still take
Faults(n) == faults + n <= MaxFaults /\ faults' = faults + n

\* the execution of a well-formed template failed in the step that left s
renderFailed(s) == s.err = RenderError /\ s.template.good

\* the controller calls generatePDF for request c
Request(c) ==
  /\ st[c].pc = "idle"
  /\ st' = [st EXCEPT ![c] = whileLoop(st[c], pdfRetryAttempts)]
  /\ UNCHANGED <<validationVars, serverVars, helperVars, httpVars, cvVars, pdfRetryAttempts, fontWarnings, fontReads, browsers, templateCache, fontCache, templateFile, reads, compiles, faults>>

\* puppeteer.launch settles; on success the first isConnected check follows
Launch(c) ==
  /\ st[c].pc = "launch"
  /\ \/ \E e \in LaunchErrors :
          /\ st' = [st EXCEPT ![c] = throwInternal(st[c], e, pdfRetryAttempts)]
          /\ UNCHANGED browsers
          /\ Faults(1)
     \/ \E conn \in BOOLEAN :
          LET l == puppeteerLaunch(browsers, <<c, st[c].attempts>>)
              s == [st[c] EXCEPT !.browser = l.browser]
          IN /\ browsers' = l.browsers
             /\ st' = [st EXCEPT ![c] =
                         IF conn THEN [s EXCEPT !.pc = "poll"]
                         ELSE throwInternal(s, NotConnectedError, pdfRetryAttempts)]
             /\ Faults(IF conn THEN 0 ELSE 1)
  /\ UNCHANGED <<validationVars, serverVars, helperVars, httpVars, cvVars, pdfRetryAttempts, fontWarnings, fontReads, templateCache, fontCache, templateFile, reads, compiles>>

\* one round of the readiness poll: the 500 ms wait, isConnected, version(),
\* and after the loop the isConnected check before the page is created
Poll(c) ==
  LET s == st[c]
  IN /\ s.pc = "poll"
     /\ \/ /\ st' = [st EXCEPT ![c] = throwInternal(afterPoll(s), DisconnectedError, pdfRetryAttempts)]
           /\ Faults(1)
        \/ /\ st' = [st EXCEPT ![c] = versionFailed(s, pdfRetryAttempts)]
           /\ Faults(0)
        \/ /\ st' = [st EXCEPT ![c] = [versionResolved(s) EXCEPT !.pc = "newPage"]]
           /\ Faults(0)
        \/ /\ st' = [st EXCEPT ![c] = throwInternal(versionResolved(s), ConnectionLostError, pdfRetryAttempts)]
           /\ Faults(1)
     /\ UNCHANGED <<validationVars, serverVars, helperVars, httpVars, cvVars, pdfRetryAttempts, fontWarnings, fontReads, browsers, templateCache, fontCache, templateFile, reads, compiles>>

\* the race of browser.newPage() against the 10 s timer settles
NewPage(c) ==
  LET s == st[c]
      b == s.browser
  IN /\ s.pc = "newPage"
     /\ \/ /\ browsers' = [browsers EXCEPT ![b].page = "open"]
           /\ st' = [st EXCEPT ![c] = [s EXCEPT !.page = b, !.pc = "setUserAgent"]]
           /\ Faults(0)
        \/ \E e \in ExternalErrors :
             /\ UNCHANGED browsers
             /\ st' = [st EXCEPT ![c] = throwInternal(s, e, pdfRetryAttempts)]
             /\ Faults(1)
        \/ /\ browsers' = [browsers EXCEPT ![b].page = "pending"]
           /\ st' = [st EXCEPT ![c] = throwInternal(s, PageTimeoutError, pdfRetryAttempts)]
           /\ Faults(1)
     /\ UNCHANGED <<validationVars, serverVars, helperVars, httpVars, cvVars, pdfRetryAttempts, fontWarnings, fontReads, templateCache, fontCache, templateFile, reads, compiles>>

\* a newPage() that lost the race completes in a browser that still runs
LatePage(b) ==
  /\ browsers[b].page = "pending"
  /\ browsers[b].running
  /\ browsers' = [browsers EXCEPT ![b].page = "open"]
  /\ UNCHANGED <<validationVars, serverVars, helperVars, httpVars, cvVars, pdfRetryAttempts, fontWarnings, fontReads, st, templateCache, fontCache, templateFile, reads, compiles, faults>>

\* page.setUserAgent settles; on success loadTemplate starts
SetUserAgent(c) ==
  LET s == st[c]
  IN /\ s.pc = "setUserAgent"
     /\ \/ \E e \in ExternalErrors :
             /\ st' = [st EXCEPT ![c] = throwInternal(s, e, pdfRetryAttempts)]
             /\ Faults(1)
        \/ \E ok \in BOOLEAN :
             LET s2 == loadTemplate([s EXCEPT !.loadStarted = TRUE],
                                    templateCache, fontCache, ok, pdfRetryAttempts)
             IN /\ st' = [st EXCEPT ![c] = s2]
                /\ Faults(IF renderFailed(s2) THEN 1 ELSE 0)
     /\ UNCHANGED <<validationVars, serverVars, helperVars, httpVars, cvVars, pdfRetryAttempts, fontWarnings, fontReads, browsers, templateCache, fontCache, templateFile, reads, compiles>>

\* fs.readFile of the template source settles: registerHelpers, compile,
\* cache, then the fonts; or the catch block that throws the load error
ReadTemplate(c) ==
  LET s == st[c]
  IN /\ s.pc = "readTemplate"
     /\ reads' = reads + 1
     /\ \E eager \in BOOLEAN, ok \in BOOLEAN :
          LET l == compileAndCache(templateCache, templateFile, eager, s.browser)
              s2 == IF l.failed
                    THEN throwInternal(s, TemplateLoadError, pdfRetryAttempts)
                    ELSE getFontsBase64([s EXCEPT !.template = l.template],
                                        1, fontCache, ok, pdfRetryAttempts)
          IN /\ templateCache' = l.cache
             /\ compiles' = IF l.failed THEN compiles ELSE compiles + 1
             /\ st' = [st EXCEPT ![c] = s2]
             /\ Faults(IF renderFailed(s2) THEN 1 ELSE 0)
     /\ UNCHANGED <<validationVars, serverVars, helperVars, httpVars, cvVars, pdfRetryAttempts, fontWarnings, fontReads, browsers, fontCache, templateFile>>

\* fs.readFile of font st[c].fontIdx settles: the payload is cached, or the
\* read failed and the payload is empty; then the remaining fonts
ReadFont(c) ==
  LET s == st[c]
  IN /\ s.pc = "readFont"
     /\ \E readable \in BOOLEAN, ok \in BOOLEAN :
          LET s2 == loadFontAsBase64(s, fontCache, readable, ok, pdfRetryAttempts)
          IN /\ fontCache' = IF readable THEN fontCache \cup {s.fontIdx} ELSE fontCache
             /\ fontWarnings' = IF readable THEN fontWarnings ELSE fontWarnings + 1
             /\ fontReads' = fontReads \cup {s.fontIdx}
             /\ st' = [st EXCEPT ![c] = s2]
             /\ Faults((IF readable THEN 0 ELSE 1) + (IF renderFailed(s2) THEN 1 ELSE 0))
     /\ UNCHANGED <<validationVars, serverVars, helperVars, httpVars, cvVars, pdfRetryAttempts, browsers, templateCache, templateFile, reads, compiles>>

\* page.setContent settles; on success the 1 s pause and page.pdf follow
SetContent(c) ==
  LET s == st[c]
  IN /\ s.pc = "setContent"
     /\ \/ /\ st' = [st EXCEPT ![c] = [s EXCEPT !.pc = "pdf"]]
           /\ Faults(0)
        \/ \E e \in ExternalErrors :
             /\ st' = [st EXCEPT ![c] = throwInternal(s, e, pdfRetryAttempts)]
             /\ Faults(1)
     /\ UNCHANGED <<validationVars, serverVars, helperVars, httpVars, cvVars, pdfRetryAttempts, fontWarnings, fontReads, browsers, templateCache, fontCache, templateFile, reads, compiles>>

\* page.pdf settles: the bytes of this browser's page, or an error
Pdf(c) ==
  LET s == st[c]
  IN /\ s.pc = "pdf"
     /\ \/ /\ st' = [st EXCEPT ![c] = finallyBlock([s EXCEPT !.pdf = s.browser], pdfRetryAttempts)]
           /\ Faults(0)
        \/ \E e \in ExternalErrors :
             /\ st' = [st EXCEPT ![c] = throwInternal(s, e, pdfRetryAttempts)]
             /\ Faults(1)
     /\ UNCHANGED <<validationVars, serverVars, helperVars, httpVars, cvVars, pdfRetryAttempts, fontWarnings, fontReads, browsers, templateCache, fontCache, templateFile, reads, compiles>>

\* finally: page.close() settles; an error is logged and dropped
ClosePage(c) ==
  LET s == [st[c] EXCEPT !.pageCloseTried = TRUE]
  IN /\ s.pc = "closePage"
     /\ \E closed \in BOOLEAN :
          /\ browsers' = IF closed THEN [browsers EXCEPT ![s.page].page = "none"]
                         ELSE browsers
          /\ Faults(IF closed THEN 0 ELSE 1)
          /\ st' = [st EXCEPT ![c] = afterPageClose(s, closed, pdfRetryAttempts)]
     /\ UNCHANGED <<validationVars, serverVars, helperVars, httpVars, cvVars, pdfRetryAttempts, fontWarnings, fontReads, templateCache, fontCache, templateFile, reads, compiles>>

\* finally: browser.close() settles; an error is logged and dropped, and the
\* instance it was to close still runs
CloseBrowser(c) ==
  LET s == st[c]
  IN /\ s.pc = "closeBrowser"
     /\ \E closed \in BOOLEAN :
          /\ browsers' = IF closed THEN [browsers EXCEPT ![s.browser] = closedBrowser(@)]
                         ELSE browsers
          /\ Faults(IF closed THEN 0 ELSE 1)
     /\ st' = [st EXCEPT ![c] = exitAttempt(s, pdfRetryAttempts)]
     /\ UNCHANGED <<validationVars, serverVars, helperVars, httpVars, cvVars, pdfRetryAttempts, fontWarnings, fontReads, templateCache, fontCache, templateFile, reads, compiles>>

\* the 2 s wait after a dropped connection is over
ConnectionWait(c) ==
  /\ st[c].pc = "connectionWait"
  /\ st' = [st EXCEPT ![c] = afterConnectionWait(setTimeout(st[c], ConnectionWaitMs), pdfRetryAttempts)]
  /\ UNCHANGED <<validationVars, serverVars, helperVars, httpVars, cvVars, pdfRetryAttempts, fontWarnings, fontReads, browsers, templateCache, fontCache, templateFile, reads, compiles, faults>>

\* the 1 s wait before the next attempt is over
Backoff(c) ==
  /\ st[c].pc = "backoff"
  /\ st' = [st EXCEPT ![c] = whileLoop(setTimeout(st[c], BackoffMs), pdfRetryAttempts)]
  /\ UNCHANGED <<validationVars, serverVars, helperVars, httpVars, cvVars, pdfRetryAttempts, fontWarnings, fontReads, browsers, templateCache, fontCache, templateFile, reads, compiles, faults>>

\* the template source on disk is repaired
RepairTemplateFile ==
  /\ templateFile # "ok"
  /\ templateFile' = "ok"
  /\ UNCHANGED <<validationVars, serverVars, helperVars, httpVars, cvVars, pdfRetryAttempts, fontWarnings, fontReads, st, browsers, templateCache, fontCache, reads, compiles, faults>>

Next ==
  \/ \E c \in Calls : Request(c)
  \/ \E c \in Calls : Launch(c)
  \/ \E c \in Calls : Poll(c)
  \/ \E c \in Calls : NewPage(c)
  \/ \E b \in BrowserIds : LatePage(b)
  \/ \E c \in Calls : SetUserAgent(c)
  \/ \E c \in Calls : ReadTemplate(c)
  \/ \E c \in Calls : ReadFont(c)
  \/ \E c \in Calls : SetContent(c)
  \/ \E c \in Calls : Pdf(c)
  \/ \E c \in Calls : ClosePage(c)
  \/ \E c \in Calls : CloseBrowser(c)
  \/ \E c \in Calls : ConnectionWait(c)
  \/ \E c \in Calls : Backoff(c)
  \/ RepairTemplateFile

Spec == Init /\ [][Next]_vars

\* ------------------------------------------------------------------------
\* Strings (String.prototype of JavaScript, on sequences of characters)
\* ------------------------------------------------------------------------
\* the characters \s matches and trim() removes, as far as they are used here
WhiteSpace == {" ", "\n", "\t", "\r"}
UpperCase == <<"A", "B", "C", "D", "E", "F", "G", "H", "I", "J", "K", "L", "M",
               "N", "O", "P", "Q", "R", "S", "T", "U", "V", "W", "X", "Y", "Z">>
LowerCase == <<"a", "b", "c", "d", "e", "f", "g", "h", "i", "j", "k", "l", "m",
               "n", "o", "p", "q", "r", "s", "t", "u", "v", "w", "x", "y", "z">>
\* [a-zA-Z_]
IdentifierChars == Range(UpperCase) \cup Range(LowerCase) \cup {"_"}

\* s.substring(i), i counted from 0
substring(s, i) == SubSeq(s, i + 1, Len(s))

\* s.trimStart()
RECURSIVE trimStart(_)
trimStart(s) ==
  IF s # <<>> /\ s[1] \in WhiteSpace THEN trimStart(Tail(s)) ELSE s

\* s.trimEnd()
RECURSIVE trimEnd(_)
trimEnd(s) ==
  IF s # <<>> /\ s[Len(s)] \in WhiteSpace THEN trimEnd(SubSeq(s, 1, Len(s) - 1)) ELSE s

\* s.trim()
trim(s) == trimEnd(trimStart(s))

\* s.toLowerCase()
toLowerCase(s) ==
  [i \in 1..Len(s) |->
     IF \E j \in 1..26 : UpperCase[j] = s[i]
     THEN LowerCase[CHOOSE j \in 1..26 : UpperCase[j] = s[i]]
     ELSE s[i]]

\* s.includes(ch)
includes(s, ch) == \E i \in 1..Len(s) : s[i] = ch

\* s.split(ch): the pieces between the occurrences of ch
RECURSIVE split(_, _)
split(s, ch) ==
  IF ~includes(s, ch) THEN <<s>>
  ELSE LET i == CHOOSE i \in 1..Len(s) : s[i] = ch /\ \A j \in 1..(i - 1) : s[j] # ch
       IN <<SubSeq(s, 1, i - 1)>> \o split(substring(s, i), ch)

\* items.join(ch)
RECURSIVE join(_, _)
join(items, ch) ==
  IF items = <<>> THEN <<>>
  ELSE IF Len(items) = 1 THEN items[1]
  ELSE items[1] \o <<ch>> \o join(Tail(items), ch)

\* items.filter(item => item.length > 0)
RECURSIVE filterNonEmpty(_)
filterNonEmpty(items) ==
  IF items = <<>> THEN <<>>
  ELSE IF Len(items[1]) > 0 THEN <<items[1]>> \o filterNonEmpty(Tail(items))
  ELSE filterNonEmpty(Tail(items))

\* s.replace(/\s+/g, ' '): every run of whitespace becomes one space
RECURSIVE collapseWhiteSpace(_)
collapseWhiteSpace(s) ==
  IF s = <<>> THEN <<>>
  ELSE IF s[1] \in WhiteSpace THEN <<" ">> \o collapseWhiteSpace(trimStart(s))
  ELSE <<s[1]>> \o collapseWhiteSpace(Tail(s))

\* s.replace(/\s*&\s*/g, ', '): every '&' with the whitespace around it
\* becomes ', '; whitespace that no '&' follows stays
RECURSIVE replaceAmpersands(_)
replaceAmpersands(s) ==
  IF s = <<>> THEN <<>>
  ELSE LET rest == trimStart(s)
           k == Len(s) - Len(rest)
       IN IF rest # <<>> /\ rest[1] = "&"
          THEN <<",", " ">> \o replaceAmpersands(trimStart(Tail(rest)))
          ELSE IF k > 0 THEN SubSeq(s, 1, k) \o replaceAmpersands(rest)
          ELSE <<s[1]>> \o replaceAmpersands(Tail(s))

\* a value in a boolean context: !!v
truthy(v) ==
  \/ v.kind = "string" /\ v.s # <<>>
  \/ v.kind = "object"
  \/ v.kind = "boolean" /\ v.b

Bool(b) == [kind |-> "boolean", b |-> b]

\* mutant of isEmpty: the placeholder pattern @identifier is not tested
isEmptyNoPlaceholder(v) ==
  \/ v.kind \in {"null", "undefined"}
  \/ /\ v.kind = "string"
     /\ LET trimmed == trim(v.s)
        IN \/ trimmed = <<>>
           \/ trimmed = <<"@">>
           \/ toLowerCase(trimmed) = <<"n", "o", "n", "e">>

\* ------------------------------------------------------------------------
\* utils/sanitize
\* ------------------------------------------------------------------------
\* isEmpty(value)
isEmpty(v) ==
  \/ v.kind \in {"null", "undefined"}
  \/ /\ v.kind = "string"
     /\ LET trimmed == trim(v.s)
        IN \/ trimmed = <<>>
           \/ trimmed = <<"@">>
           \/ toLowerCase(trimmed) = <<"n", "o", "n", "e">>
           \/ /\ Len(trimmed) >= 2
              /\ trimmed[1] = "@"
              /\ \A i \in 2..Len(trimmed) : trimmed[i] \in IdentifierChars

\* normalizeWhitespace(value)
normalizeWhitespace(v) ==
  IF v.kind # "string" THEN Str(<<>>) ELSE Str(collapseWhiteSpace(trim(v.s)))

\* mutant of formatPhoneNumber: a leading 0 is kept behind the prefix
formatPhoneNumberKeepsZero(phone) ==
  IF ~truthy(phone) THEN undefined
  ELSE LET trimmed == trim(phone.s)
       IN IF trimmed # <<>> /\ trimmed[1] = "+" THEN Str(trimmed)
          ELSE Str(<<"+", "2", "7">> \o trimmed)

\* formatPhoneNumber(phone)
formatPhoneNumber(phone) ==
  IF ~truthy(phone) THEN undefined
  ELSE LET trimmed == trim(phone.s)
       IN IF trimmed # <<>> /\ trimmed[1] = "+" THEN Str(trimmed)
          ELSE IF trimmed # <<>> /\ trimmed[1] = "0"
          THEN Str(<<"+", "2", "7">> \o substring(trimmed, 1))
          ELSE Str(<<"+", "2", "7">> \o trimmed)

\* processField(value)
processField(v) ==
  IF isEmpty(v) THEN undefined
  ELSE IF v.kind = "string"
  THEN LET value == trim(v.s) IN IF value = <<>> THEN undefined ELSE Str(value)
  ELSE undefined

\* ------------------------------------------------------------------------
\* CVProcessorService
\* ------------------------------------------------------------------------
sparse == Str(<<"s", "p", "a", "r", "s", "e">>)
standard == Str(<<"s", "t", "a", "n", "d", "a", "r", "d">>)
\* 'CERTIFICATIONS & QUALIFICATIONS'
CertificatesHeading ==
  Str(<<"C", "E", "R", "T", "I", "F", "I", "C", "A", "T", "I", "O", "N", "S", " ", "&", " ",
        "Q", "U", "A", "L", "I", "F", "I", "C", "A", "T", "I", "O", "N", "S">>)
\* 'ADDITIONAL EXPERIENCE'
AdditionalExperienceHeading ==
  Str(<<"A", "D", "D", "I", "T", "I", "O", "N", "A", "L", " ",
        "E", "X", "P", "E", "R", "I", "E", "N", "C", "E">>)

\* mutant of phone_centered: the phone is not looked at
phone_centeredNoPhone(email, phone) == Bool(~truthy(email))

\* processed.phone_centered = !processed.email && !!processed.phone
phone_centered(email, phone) == Bool(~truthy(email) /\ truthy(phone))

\* detectContentMode(data)
detectContentMode(d) ==
  LET hasWorkExperience == \E i \in Slots : truthy(d[TitleKeys[i]])
      hasTertiaryEducation == truthy(d["tertiary_education"])
  IN IF ~hasWorkExperience \/ ~hasTertiaryEducation THEN sparse ELSE standard

\* formatEducation(education)
formatEducation(education) ==
  LET value == processField(education)
  IN IF ~truthy(value) THEN undefined
     ELSE LET lines == split(value.s, "\n")
          IN IF \A i \in 1..Len(lines) : trim(lines[i]) = <<>> THEN undefined
             ELSE value

\* mutant of processWorkExperience: a slot needs all three sub-fields
processWorkExperienceAllThree(title, duration, duties) ==
  LET processedTitle == processField(title)
      processedDuration == processField(duration)
      processedDuties == processField(duties)
  IN IF ~truthy(processedTitle) \/ ~truthy(processedDuration) \/ ~truthy(processedDuties)
     THEN undefined
     ELSE [kind |-> "object", title |-> processedTitle.s,
           duration |-> processedDuration.s, duties |-> processedDuties.s]

\* processWorkExperience(title, duration, duties)
processWorkExperience(title, duration, duties) ==
  LET processedTitle == processField(title)
      processedDuration == processField(duration)
      processedDuties == processField(duties)
  IN IF ~truthy(processedTitle) /\ ~truthy(processedDuration) /\ ~truthy(processedDuties)
     THEN undefined
     ELSE [kind |-> "object",
           title |-> IF truthy(processedTitle) THEN processedTitle.s ELSE <<>>,
           duration |-> IF truthy(processedDuration) THEN processedDuration.s ELSE <<>>,
           duties |-> IF truthy(processedDuties) THEN processedDuties.s ELSE <<>>]

\* mutant of formatCommaSeparated: '&' separates only where there is no comma
formatCommaSeparatedCommaFirst(value) ==
  IF ~truthy(value) THEN undefined
  ELSE IF includes(value.s, "\n") THEN value
  ELSE LET normalized == IF includes(value.s, ",") THEN value.s
                         ELSE replaceAmpersands(value.s)
           pieces == split(normalized, ",")
           items == filterNonEmpty([i \in 1..Len(pieces) |-> trim(pieces[i])])
       IN IF Len(items) > 0 THEN Str(join(items, "\n")) ELSE undefined

\* formatCommaSeparated(value)
formatCommaSeparated(value) ==
  IF ~truthy(value) THEN undefined
  ELSE IF includes(value.s, "\n") THEN value
  ELSE LET normalized == replaceAmpersands(value.s)
           pieces == split(normalized, ",")
           items == filterNonEmpty([i \in 1..Len(pieces) |-> trim(pieces[i])])
       IN IF Len(items) > 0 THEN Str(join(items, "\n")) ELSE undefined

\* the slot a numbered key belongs to
SlotOf(keys, k) == CHOOSE i \in Slots : keys[i] = k

\* mutant of hasCertificates: other qualifications alone make no section
hasCertificatesAlone(certificates, otherQualifications) == truthy(certificates)

\* if (certificates || otherQualifications)
hasCertificates(certificates, otherQualifications) ==
  truthy(certificates) \/ truthy(otherQualifications)

\* mutant of newProjection: the object starts as a copy of the raw record
newProjectionCopies(d) == d

\* const processed: ProcessedCVData = {}: the object process fills takes
\* nothing from data
newProjection(d) == [k \in {} |-> undefined]

\* process(data): a key that is not assigned, or assigned undefined, holds
\* undefined under the keys of ProcessedCVData; a key process does not
\* assign holds what the new object held
process(d) ==
  LET certificates == processField(d["certificates"])
      otherQualifications == processField(d["other_qualifications"])
      additionalExp == processField(d["additional_experience"])
      new == newProjection(d)
      unassigned(k) == IF k \in DOMAIN new THEN new[k] ELSE undefined
      assignIf(cond, k, v) == IF cond THEN v ELSE unassigned(k)
  IN [k \in ProcessedKeys \cup DOMAIN new |->
       CASE k \in {"full_name", "designation", "email", "physical_address",
                   "splash_image", "career_goal"} -> processField(d[k])
         [] k = "phone" -> formatPhoneNumber(processField(d["phone"]))
         [] k = "photo_url" ->
              IF truthy(d["photo_url"]) /\ d["photo_url"].kind = "string"
              THEN Str(trim(d["photo_url"].s)) ELSE undefined
         [] k = "phone_centered" ->
              phone_centered(processField(d["email"]),
                             formatPhoneNumber(processField(d["phone"])))
         [] k = "contentMode" -> detectContentMode(d)
         [] k \in {"education_matric", "tertiary_education"} -> formatEducation(d[k])
         [] k = "training_certificates_heading" ->
              assignIf(hasCertificates(certificates, otherQualifications), k,
                       CertificatesHeading)
         [] k = "training_cert_bullet" ->
              assignIf(hasCertificates(certificates, otherQualifications), k, certificates)
         [] k = "other_qualifications_bullet" ->
              assignIf(hasCertificates(certificates, otherQualifications), k,
                       otherQualifications)
         [] k \in {"skills", "languages"} -> formatCommaSeparated(processField(d[k]))
         [] k \in Range(WorkExperienceKeys) ->
              LET i == SlotOf(WorkExperienceKeys, k)
                  workExp == processWorkExperience(d[TitleKeys[i]], d[DurationKeys[i]],
                                                   d[DutiesKeys[i]])
              IN assignIf(truthy(workExp), k, workExp)
         [] k \in Range(ReferenceKeys) ->
              LET ref == processField(d[k]) IN assignIf(truthy(ref), k, ref)
         [] k = "Additional_Experience_heading" ->
              assignIf(truthy(additionalExp), k, AdditionalExperienceHeading)
         [] k = "additional_experience" ->
              assignIf(truthy(additionalExp), k, additionalExp)
         [] OTHER -> unassigned(k)]

\* { ...a, ...b }: the keys of both, b's value where both have the key
spread(a, b) ==
  [k \in DOMAIN a \cup DOMAIN b |-> IF k \in DOMAIN b THEN b[k] ELSE a[k]]

\* the object getFontsBase64 returns: one payload per font key (a payload
\* is a base64 string, or '' for a font that could not be read)
fonts == [k \in FontKeys |-> Str(<<>>)]

\* ------------------------------------------------------------------------
\* The CV processor on its own: process applied to a raw record, and applied
\* again to the projection it returned
\* ------------------------------------------------------------------------
\* the characters raw values are made of
Chars == {" ", "\n", "@", "_", "n", "o", "e", "N", ",", "&", "+", "0"}
\* every string of at most n characters
StringsUpTo(n) == UNION {[1..m -> Chars] : m \in 0..n}
\* longer values: the words the emptiness rule names, a name with a run of
\* blanks and a list with both separators, bare and with whitespace around
\* them
Words ==
  {<<"n", "o", "n", "e">>, <<"N", "o", "n", "e">>, <<"N", "O", "N", "E">>,
   <<"@", "n", "_", "e">>, <<"@", "n", "0", "e">>, <<"n", " ", " ", "n">>,
   <<"n", ",", "o", "&", "e">>}
Pads == {<<>>, <<" ">>, <<"\n">>}
PaddedWords == {p \o w \o q : p \in Pads, w \in Words, q \in Pads}
\* the values of a record with one key set
Values == {Str(s) : s \in StringsUpTo(MaxLen) \cup PaddedWords} \cup {null}
\* the values of a record with several keys set: one the emptiness rule
\* hides, one it keeps
Marks == {Str(<<"@">>), Str(<<"n">>)}

\* the keys of CVData in the order of the interface
CVDataKeyList ==
  <<"full_name", "designation", "phone", "email", "physical_address", "photo_url",
    "splash_image", "career_goal", "education_matric", "tertiary_education",
    "certificates", "other_qualifications", "skills", "languages">>
  \o [i \in 1..15 |-> IF i % 3 = 1 THEN TitleKeys[(i + 2) \div 3]
                      ELSE IF i % 3 = 2 THEN DurationKeys[(i + 2) \div 3]
                      ELSE DutiesKeys[(i + 2) \div 3]]
  \o ReferenceKeys \o <<"additional_experience">>

\* the sets of at most n positions of that list
RECURSIVE KeySets(_)
KeySets(n) ==
  IF n = 0 THEN {{}}
  ELSE LET smaller == KeySets(n - 1)
       IN smaller \cup
          {x[1] \cup {x[2]} :
             x \in {y \in smaller \X (1..Len(CVDataKeyList)) : \A j \in y[1] : j < y[2]}}

\* the record that holds g[i] under the i-th key, for the positions g has
RecordOf(g) ==
  [k \in RawKeys |->
     IF \E i \in DOMAIN g : CVDataKeyList[i] = k
     THEN g[CHOOSE i \in DOMAIN g : CVDataKeyList[i] = k]
     ELSE undefined]

\* the keys of the projection that hold a string under the key of the raw
\* record they come from
KeptKeys ==
  {"full_name", "phone", "email", "physical_address", "career_goal", "education_matric",
   "tertiary_education", "skills", "languages", "additional_experience"}
  \cup Range(ReferenceKeys)

\* the projection serialised and read as a raw record
reserialize(p) ==
  [k \in RawKeys |-> IF k \in KeptKeys /\ p[k].kind = "string" THEN p[k] ELSE undefined]

InitCV ==
  /\ pdfRetryAttempts = Num(1)
  /\ st = [c \in Calls |-> IdleCall]
  /\ browsers = [b \in BrowserIds |-> NoBrowser]
  /\ templateCache = [n \in TemplateNames |-> NoTemplate]
  /\ fontCache = {}
  /\ templateFile = "ok"
  /\ reads = 0
  /\ compiles = 0
  /\ faults = 0
  /\ fontWarnings = 0
  /\ fontReads = {}
  /\ \/ \E k \in CVDataKeys, v \in Values : data = [NoData EXCEPT ![k] = v]
     \/ \E S \in KeySets(MaxFields) : \E g \in [S -> Marks] : data = RecordOf(g)
     \/ \E x \in ExtraKeys, v \in Marks : \E S \in KeySets(1) : \E g \in [S -> Marks] :
          data = [RecordOf(g) EXCEPT ![x] = v]
  /\ processed = NoProjection
  /\ pass = 0
  /\ templateData = NoContext
  /\ NoTraffic
  /\ Elsewhere

\* the controller hands the raw record to process
Process ==
  /\ pass = 0
  /\ processed' = process(data)
  /\ pass' = 1
  /\ UNCHANGED <<data, templateData, pdfVars, httpVars, helperVars, serverVars, validationVars>>

\* generatePDFInternal merges the projection and the fonts into the context
\* the template is executed on
Render ==
  /\ pass = 1
  /\ templateData = NoContext
  /\ templateData' = spread(processed, fonts)
  /\ UNCHANGED <<data, processed, pass, pdfVars, httpVars, helperVars, serverVars, validationVars>>

\* the projection is handed to process as a raw record
Reprocess ==
  /\ pass = 1
  /\ data' = reserialize(processed)
  /\ processed' = process(reserialize(processed))
  /\ pass' = 2
  /\ UNCHANGED <<templateData, pdfVars, httpVars, helperVars, serverVars, validationVars>>

NextCV ==
  \/ Process
  \/ Render
  \/ Reprocess

SpecCV == InitCV /\ [][NextCV]_vars

\* ------------------------------------------------------------------------
\* The Express application: createApp, the routes and their middleware
\* ------------------------------------------------------------------------
\* the handler is entered for request r
enter(r, handler) == [r EXCEPT !.trail = Append(@, handler)]

\* the response is sent: the request is answered
respond(r, response) == [r EXCEPT !.pc = "done", !.response = response]

\* res.status(status).json({ error: message })
jsonError(status, message) == [status |-> status, error |-> message, body |-> 0]

\* next(e): Express skips to the error middleware
nextError(r, e) == respond(enter(r, "errorHandler"), errorHandler(e))

\* the router finds no route: notFoundHandler
notFoundHandler(r) == respond(enter(r, "notFoundHandler"), jsonError(404, "Route not found"))

\* express.json(): the body is parsed, or the error is passed on
expressJson(r) ==
  LET q == enter(r, "express.json")
  IN IF q.body = "malformed" THEN nextError(q, JsonSyntaxError)
     ELSE IF q.body = "tooLarge" THEN nextError(q, PayloadTooLargeError)
     ELSE [q EXCEPT !.pc = "limiter"]

\* the routers of createApp: the handler a request is dispatched to first
dispatch(r) ==
  IF r.target \in CVTargets THEN [r EXCEPT !.pc = "authenticateApiKey"]
  ELSE IF r.target = "GET /health"
  THEN respond(enter(r, "health"), [status |-> 200, error |-> "", body |-> 0])
  ELSE notFoundHandler(r)

\* the rate limiter, which has counted n requests with this one
limiter(r, n, max) ==
  LET q == enter(r, "limiter")
  IN IF n > max
     THEN respond(q, jsonError(429, "Too many requests, please try again later"))
     ELSE dispatch(q)

\* mutant of authenticateApiKey: any key that was sent is accepted
authenticateApiKeyAnyKey(r, key) ==
  LET q == enter(r, "authenticateApiKey")
  IN IF ~q.x_api_key.present \/ q.x_api_key.value = ""
     THEN respond(q, jsonError(401, "API key is required"))
     ELSE [q EXCEPT !.pc = "validateRequest"]

\* authenticateApiKey(req, res, next), key: config.apiKey
authenticateApiKey(r, key) ==
  LET q == enter(r, "authenticateApiKey")
  IN IF ~q.x_api_key.present \/ q.x_api_key.value = ""
     THEN respond(q, jsonError(401, "API key is required"))
     ELSE IF q.x_api_key.value # key
     THEN respond(q, jsonError(401, "Invalid API key"))
     ELSE [q EXCEPT !.pc = "validateRequest"]

\* validateRequest(cvSchema)
validateRequest(r) ==
  LET q == enter(r, "validateRequest")
  IN IF q.body # "valid"
     THEN respond(q, jsonError(400, "Validation error"))
     ELSE [q EXCEPT !.pc = "controller"]

\* asyncHandler(cvController.generatePDF) is entered: process runs and
\* generatePDF is awaited
controller(r) == [enter(r, "controller") EXCEPT !.pc = "generatePDF"]

\* a request arrives
Receive(i) ==
  /\ reqs[i].pc = "none"
  /\ \E target \in Targets, header \in HeaderValues, body \in Bodies :
       reqs' = [reqs EXCEPT ![i] = [NoRequest EXCEPT !.pc = "express.json",
                                                     !.target = target,
                                                     !.x_api_key = header,
                                                     !.body = body]]
  /\ UNCHANGED <<apiKey, rateLimitMaxRequests, hits, cvVars, pdfVars, helperVars, serverVars, validationVars>>

\* helmet, cors and the body parsers
ExpressJson(i) ==
  /\ reqs[i].pc = "express.json"
  /\ reqs' = [reqs EXCEPT ![i] = expressJson(reqs[i])]
  /\ UNCHANGED <<apiKey, rateLimitMaxRequests, hits, cvVars, pdfVars, helperVars, serverVars, validationVars>>

\* the rate limiter counts the request and either answers it or lets the
\* router dispatch it
Limiter(i) ==
  /\ reqs[i].pc = "limiter"
  /\ hits' = hits + 1
  /\ reqs' = [reqs EXCEPT ![i] = limiter(reqs[i], hits + 1, rateLimitMaxRequests)]
  /\ UNCHANGED <<apiKey, rateLimitMaxRequests, cvVars, pdfVars, helperVars, serverVars, validationVars>>

\* the first handler of the two CV routes
AuthenticateApiKey(i) ==
  /\ reqs[i].pc = "authenticateApiKey"
  /\ reqs' = [reqs EXCEPT ![i] = authenticateApiKey(reqs[i], apiKey)]
  /\ UNCHANGED <<apiKey, rateLimitMaxRequests, hits, cvVars, pdfVars, helperVars, serverVars, validationVars>>

\* the second handler of the two CV routes
ValidateRequest(i) ==
  /\ reqs[i].pc = "validateRequest"
  /\ reqs' = [reqs EXCEPT ![i] = validateRequest(reqs[i])]
  /\ UNCHANGED <<apiKey, rateLimitMaxRequests, hits, cvVars, pdfVars, helperVars, serverVars, validationVars>>

\* the last handler of the two CV routes starts
Controller(i) ==
  /\ reqs[i].pc = "controller"
  /\ reqs' = [reqs EXCEPT ![i] = controller(reqs[i])]
  /\ UNCHANGED <<apiKey, rateLimitMaxRequests, hits, cvVars, pdfVars, helperVars, serverVars, validationVars>>

\* generatePDF settles: the controller sends the bytes, or asyncHandler
\* passes the error generatePDF threw to the error middleware
GeneratePDFSettles(i) ==
  /\ reqs[i].pc = "generatePDF"
  /\ \/ reqs' = [reqs EXCEPT ![i] = respond(reqs[i], [status |-> 200, error |-> "", body |-> 1])]
     \/ \E e \in {GenerationFailed, GenerationFallback} :
          reqs' = [reqs EXCEPT ![i] = nextError(reqs[i], e)]
  /\ UNCHANGED <<apiKey, rateLimitMaxRequests, hits, cvVars, pdfVars, helperVars, serverVars, validationVars>>

\* the application is created with the configuration of its environment
InitHTTP ==
  /\ pdfRetryAttempts = Num(1)
  /\ st = [c \in Calls |-> IdleCall]
  /\ browsers = [b \in BrowserIds |-> NoBrowser]
  /\ templateCache = [n \in TemplateNames |-> NoTemplate]
  /\ fontCache = {}
  /\ templateFile = "ok"
  /\ reads = 0
  /\ compiles = 0
  /\ faults = 0
  /\ fontWarnings = 0
  /\ fontReads = {}
  /\ data = NoData
  /\ processed = NoProjection
  /\ pass = 0
  /\ templateData = NoContext
  /\ apiKey \in ApiKeys
  /\ rateLimitMaxRequests \in 1..MaxRateLimit
  /\ hits = 0
  /\ reqs = [i \in Requests |-> NoRequest]
  /\ Elsewhere

NextHTTP ==
  \/ \E i \in Requests : Receive(i)
  \/ \E i \in Requests : ExpressJson(i)
  \/ \E i \in Requests : Limiter(i)
  \/ \E i \in Requests : AuthenticateApiKey(i)
  \/ \E i \in Requests : ValidateRequest(i)
  \/ \E i \in Requests : Controller(i)
  \/ \E i \in Requests : GeneratePDFSettles(i)

SpecHTTP == InitHTTP /\ [][NextHTTP]_vars

\* ------------------------------------------------------------------------
\* The Handlebars helpers registerHelpers installs
\* ------------------------------------------------------------------------
\* no request is in the PDF generator, the processor or the application
IdleService ==
  /\ pdfRetryAttempts = Num(1)
  /\ st = [c \in Calls |-> IdleCall]
  /\ browsers = [b \in BrowserIds |-> NoBrowser]
  /\ templateCache = [n \in TemplateNames |-> NoTemplate]
  /\ fontCache = {}
  /\ templateFile = "ok"
  /\ reads = 0
  /\ compiles = 0
  /\ faults = 0
  /\ fontWarnings = 0
  /\ fontReads = {}
  /\ data = NoData
  /\ processed = NoProjection
  /\ pass = 0
  /\ templateData = NoContext
  /\ NoTraffic

Digits == {"0", "1", "2", "3", "4", "5", "6", "7", "8", "9"}

\* ifExists(value, options): the block of the template that is rendered,
\* options.fn or options.inverse
ifExists(value) ==
  IF /\ truthy(value)
     /\ value # Str(<<>>)
     /\ value # Str(<<"@">>)
     /\ value.kind = "string"
     /\ toLowerCase(value.s) # <<"n", "o", "n", "e">>
  THEN "fn"
  ELSE "inverse"

\* handlebars.escapeExpression(s): the characters & < > " ' = become
\* entities (so does the grave accent, which a TLA+ string cannot hold and
\* no text of the model contains)
RECURSIVE escapeExpression(_)
escapeExpression(s) ==
  IF s = <<>> THEN <<>>
  ELSE (CASE s[1] = "&" -> <<"&", "a", "m", "p", ";">>
          [] s[1] = "<" -> <<"&", "l", "t", ";">>
          [] s[1] = ">" -> <<"&", "g", "t", ";">>
          [] s[1] = "\"" -> <<"&", "q", "u", "o", "t", ";">>
          [] s[1] = "'" -> <<"&", "#", "x", "2", "7", ";">>
          [] s[1] = "=" -> <<"&", "#", "x", "3", "D", ";">>
          [] OTHER -> <<s[1]>>) \o escapeExpression(Tail(s))

\* line.match(/\d{4}/): the first place where four digits stand in a row
RECURSIVE matchYear(_)
matchYear(line) ==
  IF Len(line) < 4 THEN FALSE
  ELSE IF \A j \in 1..4 : line[j] \in Digits THEN TRUE
  ELSE matchYear(Tail(line))

\* <div class="...">escaped line</div>
div(class, line) == [class |-> class, text |-> escapeExpression(line)]

\* mutant of timelineClass: the four-digit test comes before the test of
\* the position
timelineClassDateFirst(i, line) ==
  IF matchYear(line) THEN "timeline-date"
  ELSE IF i = 1 THEN "timeline-subtitle"
  ELSE "timeline-desc"

\* the class boldFirstLine gives the non-blank line at index i (from 0)
timelineClass(i, line) ==
  IF i = 1 THEN "timeline-subtitle"
  ELSE IF matchYear(line) THEN "timeline-date"
  ELSE "timeline-desc"

\* the for loop of boldFirstLine from index i (from 0) on
RECURSIVE timelineLines(_, _)
timelineLines(lines, i) ==
  IF i >= Len(lines) THEN <<>>
  ELSE (IF trim(lines[i + 1]) # <<>>
        THEN <<div(timelineClass(i, lines[i + 1]), lines[i + 1])>>
        ELSE <<>>) \o timelineLines(lines, i + 1)

\* boldFirstLine(text): the div elements of the string it returns, in order
boldFirstLine(value) ==
  IF ~truthy(value) \/ value.kind # "string" THEN <<>>
  ELSE LET lines == split(value.s, "\n")
       IN <<div("timeline-title", lines[1])>> \o timelineLines(lines, 1)

\* the lines the texts of a timeline entry are made of: blank ones, words,
\* runs of three and four digits, an ampersand
LineWords ==
  {<<>>, <<" ">>, <<"n">>, <<"0", "0", "0", "0">>, <<"n", "0", "0", "0", "0", "e">>,
   <<"0", "0", "0">>, <<"0", "0", " ", "0", "0">>, <<"n", "&", "e">>}
\* texts of at most MaxLines lines
Texts == {Str(join(q, "\n")) : q \in UNION {[1..m -> LineWords] : m \in 1..MaxLines}}

InitHelpers ==
  /\ IdleService
  /\ \/ text \in Values
     \/ text \in Texts
     \/ text = undefined
  /\ helper = "none"
  /\ output = NoOutput
  /\ proc = Listening
  /\ NoBody

\* the template calls {{#ifExists text}}
IfExists ==
  /\ helper = "none"
  /\ helper' = "ifExists"
  /\ output' = [NoOutput EXCEPT !.branch = ifExists(text)]
  /\ UNCHANGED <<text, serverVars, validationVars, httpVars, cvVars, pdfVars>>

\* the template calls {{{boldFirstLine text}}}
BoldFirstLine ==
  /\ helper = "none"
  /\ helper' = "boldFirstLine"
  /\ output' = [NoOutput EXCEPT !.html = boldFirstLine(text)]
  /\ UNCHANGED <<text, serverVars, validationVars, httpVars, cvVars, pdfVars>>

NextHelpers ==
  \/ IfExists
  \/ BoldFirstLine

SpecHelpers == InitHelpers /\ [][NextHelpers]_vars

\* ------------------------------------------------------------------------
\* validateRequest(cvSchema) on the CV routes
\* ------------------------------------------------------------------------
\* the keys of Joi.object({...}) in cvSchema
cvSchemaKeys ==
  {"full_name", "phone", "email", "physical_address", "career_goal",
   "education_matric", "tertiary_education", "certificates", "other_qualifications",
   "skills", "languages", "additional_experience"}
  \cup Range(TitleKeys) \cup Range(DurationKeys) \cup Range(DutiesKeys) \cup Range(ReferenceKeys)

\* phonePattern: /^\+?[1-9]\d{1,14}$/
phonePattern(s) ==
  LET d == IF s # <<>> /\ s[1] = "+" THEN Tail(s) ELSE s
  IN /\ Len(d) \in 2..15
     /\ d[1] \in Digits \ {"0"}
     /\ \A i \in 2..Len(d) : d[i] \in Digits

\* emailPattern: /^[^\s@]+@[^\s@]+\.[^\s@]+$/
emailPattern(s) ==
  \E i, j \in 1..Len(s) :
    /\ 1 < i /\ i + 1 < j /\ j < Len(s)
    /\ s[i] = "@"
    /\ s[j] = "."
    /\ \A n \in 1..Len(s) : n # i => s[n] \notin WhiteSpace \cup {"@"}

\* the argument of .max(n) in the rule of the key, 0 where the rule has none
max(k) ==
  CASE k \in {"full_name"} \cup Range(DurationKeys) -> 200
    [] k \in {"physical_address", "languages"} \cup Range(TitleKeys) -> 500
    [] k \in {"education_matric", "tertiary_education"} \cup Range(ReferenceKeys) -> 1000
    [] k \in {"career_goal", "certificates", "other_qualifications", "skills"} -> 2000
    [] k \in {"additional_experience"} \cup Range(DutiesKeys) -> 5000
    [] OTHER -> 0

\* the value Joi validates and returns for a key of the schema: .trim()
\* with the default convert option trims a string
convert(v) == IF v.kind = "string" THEN Str(trim(v.s)) ELSE v

\* the rule of key k accepts the value: every key is optional, '' and null
\* are allowed except for full_name, a string has to keep within .max and
\* match the .pattern of the key
accepts(k, v) ==
  LET value == convert(v)
  IN \/ value = undefined
     \/ k # "full_name" /\ value \in {null, Str(<<>>)}
     \/ /\ value.kind = "string"
        /\ value.s # <<>>
        /\ max(k) # 0 => Len(value.s) <= max(k)
        /\ k = "phone" => phonePattern(value.s)
        /\ k = "email" => emailPattern(value.s)

\* cvSchema.validate(body) with stripUnknown: the error, and the value with
\* the keys of the schema only
cvSchemaValidate(b) ==
  [error |-> \E k \in cvSchemaKeys : ~accepts(k, b[k]),
   value |-> [k \in RawKeys |-> IF k \in cvSchemaKeys THEN convert(b[k]) ELSE undefined]]

\* values of a key of a request body
BodyValues ==
  {null, Str(<<>>), Str(<<" ", "n">>), Str(<<"n", " ">>), Str(<<"+", "2", "7">>),
   Str(<<"0", "7">>), Str(<<"n", "@", "n", ".", "n">>), Str(<<"n", "@", "n">>)}

\* a request body with one key of any name and at most one of the keys
\* the schema has a rule of its own for
InitValidation ==
  /\ IdleService
  /\ NoHelperCall
  /\ proc = Listening
  /\ \E k \in RawKeys, v \in BodyValues :
       \E own \in {"full_name", "phone", "email"}, w \in BodyValues \cup {undefined} :
         reqBody = [[[key \in RawKeys |-> undefined] EXCEPT ![own] = w] EXCEPT ![k] = v]
  /\ validation = "none"

\* validateRequest(cvSchema): 400 for a body the schema rejects, otherwise
\* req.body becomes the validated value and the controller is next
ValidateBody ==
  /\ validation = "none"
  /\ LET validated == cvSchemaValidate(reqBody)
     IN IF validated.error
        THEN /\ validation' = "rejected"
             /\ data' = data
        ELSE /\ validation' = "passed"
             /\ data' = validated.value
  /\ UNCHANGED <<reqBody, processed, pass, templateData, helperVars, serverVars, httpVars, pdfVars>>

\* the controller hands req.body to process
ProcessBody ==
  /\ validation = "passed"
  /\ Process

NextValidation ==
  \/ ValidateBody
  \/ ProcessBody

SpecValidation == InitValidation /\ [][NextValidation]_vars

\* ------------------------------------------------------------------------
\* server.ts: startServer and gracefulShutdown
\* ------------------------------------------------------------------------
ShutdownSignals == {"SIGTERM", "SIGINT"}
\* one step of the clock
TickMs == ForceShutdownMs \div TicksPerTimeout
\* the clock stops here
MaxNow == MaxIdleTicks * TickMs + ForceShutdownMs + TickMs

\* process.exit(code), called from the close callback, the timer or the
\* handler of an uncaught error
exit(p, code, by) == [p EXCEPT !.exited = TRUE, !.exitCode = code, !.exitBy = by]

\* the callbacks server.close was given, run by the 'close' event: each logs
\* and calls app.locals.pdfGenerator.cleanup(), which logs and resolves;
\* the first to resume after its await calls process.exit(0)
closeCallback(p) == exit([p EXCEPT !.cleanups = @ + p.listeners], 0, "close")

\* the http server emits 'close' once it has stopped listening and its last
\* connection has ended
emitCloseIfDrained(p) ==
  IF p.server = "closing" /\ p.pending = 0
  THEN IF p.listeners > 0 THEN closeCallback([p EXCEPT !.server = "closed"])
       ELSE [p EXCEPT !.server = "closed"]
  ELSE p

\* mutant of gracefulShutdown: the timer of the forced shutdown is not set
gracefulShutdownNoTimer(p, signal) ==
  [p EXCEPT !.signals = Append(@, [signal |-> signal, at |-> p.now]),
            !.server = IF @ = "listening" THEN "closing" ELSE @,
            !.listeners = @ + 1]

\* gracefulShutdown(signal): server.close(callback) stops the server from
\* accepting and registers the callback for its 'close' event; setTimeout
\* arms the forced shutdown
gracefulShutdown(p, signal) ==
  [p EXCEPT !.signals = Append(@, [signal |-> signal, at |-> p.now]),
            !.server = IF @ = "listening" THEN "closing" ELSE @,
            !.listeners = @ + 1,
            !.timers = @ \cup {p.now + ForceShutdownMs}]

InitServer ==
  /\ IdleService
  /\ NoHelperCall
  /\ proc = Listening
  /\ NoBody

\* a client connects and sends a request
Connect ==
  /\ ~proc.exited
  /\ proc.server = "listening"
  /\ proc.pending < MaxPending
  /\ proc' = [proc EXCEPT !.pending = @ + 1]
  /\ UNCHANGED <<helperVars, validationVars, httpVars, cvVars, pdfVars>>

\* a request is answered and its connection ends
Respond ==
  /\ ~proc.exited
  /\ proc.pending > 0
  /\ proc' = emitCloseIfDrained([proc EXCEPT !.pending = @ - 1])
  /\ UNCHANGED <<helperVars, validationVars, httpVars, cvVars, pdfVars>>

\* the process receives SIGTERM or SIGINT
Signal(signal) ==
  /\ ~proc.exited
  /\ Len(proc.signals) < MaxSignals
  /\ proc' = emitCloseIfDrained(gracefulShutdown(proc, signal))
  /\ UNCHANGED <<helperVars, validationVars, httpVars, cvVars, pdfVars>>

\* a timer of the forced shutdown is due: its callback exits with 1
ForcedShutdown ==
  /\ ~proc.exited
  /\ \E due \in proc.timers :
       /\ due <= proc.now
       /\ proc' = exit([proc EXCEPT !.timers = @ \ {due}], 1, "timeout")
  /\ UNCHANGED <<helperVars, validationVars, httpVars, cvVars, pdfVars>>

\* the handlers of uncaughtException and unhandledRejection exit with 1
UncaughtError ==
  /\ ~proc.exited
  /\ proc' = exit(proc, 1, "uncaught")
  /\ UNCHANGED <<helperVars, validationVars, httpVars, cvVars, pdfVars>>

\* time passes, up to the next timer that is due
Tick ==
  /\ ~proc.exited
  /\ proc.now < MaxNow
  /\ proc.signals = <<>> => proc.now < MaxIdleTicks * TickMs
  /\ \A due \in proc.timers : due > proc.now
  /\ LET later == proc.now + TickMs
         next == {due \in proc.timers : due < later}
     IN proc' = [proc EXCEPT !.now =
                   IF next = {} THEN later
                   ELSE CHOOSE due \in next : \A other \in next : due <= other]
  /\ UNCHANGED <<helperVars, validationVars, httpVars, cvVars, pdfVars>>

NextServer ==
  \/ Connect
  \/ Respond
  \/ \E signal \in ShutdownSignals : Signal(signal)
  \/ ForcedShutdown
  \/ UncaughtError
  \/ Tick

\* time passes and a timer that is due fires
SpecServer ==
  InitServer /\ [][NextServer]_vars /\ WF_vars(Tick) /\ WF_vars(ForcedShutdown)

\* ------------------------------------------------------------------------
\* Properties
\* ------------------------------------------------------------------------
\* request c is inside generatePDFInternal
InAttempt(c) ==
  st[c].pc \in {"launch", "poll", "newPage", "setUserAgent", "readTemplate",
                "readFont", "setContent", "pdf", "closePage", "closeBrowser"}

\* calls of generatePDFInternal request c has made so far
Runs(c) == Len(st[c].log) + (IF InAttempt(c) THEN 1 ELSE 0)

\* the messages of the errors raised below generatePDF
LowLevelMessages == {e.message : e \in LowLevelErrors}

\* generatePDFInternal returns or throws for request c in this step
AttemptExits(c) == Len(st'[c].log) = Len(st[c].log) + 1

\* C1: with a retry count r >= 0 a call runs generatePDFInternal at most r+1
\* times; no attempt follows one that succeeded; the call returns the bytes
\* of the attempt that succeeded.
C1_AtMostRetryPlusOneAttempts ==
  \A c \in Calls :
    (~pdfRetryAttempts.nan /\ pdfRetryAttempts.n >= 0) =>
      /\ Runs(c) <= pdfRetryAttempts.n + 1
      /\ \A k \in 1..Len(st[c].log) :
           st[c].log[k] # 0 =>
             /\ k = Len(st[c].log)
             /\ ~InAttempt(c)
             /\ st[c].pc = "done"
             /\ st[c].result = [kind |-> "bytes", bytes |-> st[c].log[k], error |-> NoError]
      /\ st[c].result.kind = "bytes" =>
           /\ Len(st[c].log) >= 1
           /\ st[c].log[Len(st[c].log)] = st[c].result.bytes
           /\ st[c].result.bytes # 0

\* C1 witness: with retry count 1 a call has failed once, succeeded on its
\* second attempt and returned
C1_Witness ==
  \E c \in Calls :
    /\ pdfRetryAttempts = Num(1)
    /\ st[c].pc = "done"
    /\ Len(st[c].log) = 2
    /\ st[c].log[1] = 0
    /\ st[c].result.kind = "bytes"

\* C2: with retry count 1, a call whose first attempt failed and whose
\* second attempt succeeded returns the bytes of the second attempt, and
\* exactly one failure event has been recorded for it.
C2_RetryScenario ==
  \A c \in Calls :
    ( /\ pdfRetryAttempts = Num(1)
      /\ st[c].pc = "done"
      /\ Len(st[c].log) = 2
      /\ st[c].log[1] = 0
      /\ st[c].log[2] # 0 ) =>
        /\ st[c].result = [kind |-> "bytes", bytes |-> st[c].log[2], error |-> NoError]
        /\ st[c].response = [status |-> 200, error |-> "", body |-> st[c].log[2]]
        /\ st[c].warnings = 1

\* C2 witness: such a call, answered with the bytes the export of its second
\* browser produced
C2_Witness ==
  \E c \in Calls :
    /\ pdfRetryAttempts = Num(1)
    /\ st[c].pc = "done"
    /\ st[c].log = <<0, st[c].result.bytes>>
    /\ st[c].result.bytes # 0
    /\ browsers[st[c].result.bytes].owner = <<c, 2>>

\* C3: with retry count 0, once the attempt of a call has failed there is no
\* second attempt, and the call ends with the exhaustion error, AppError 500
\* 'Failed to generate PDF. Please try again later.', and nothing else.
C3_ExhaustionScenario ==
  \A c \in Calls :
    ( /\ pdfRetryAttempts = Num(0)
      /\ Len(st[c].log) >= 1
      /\ st[c].log[1] = 0 ) =>
        /\ Runs(c) = 1
        /\ st[c].pc \in {"connectionWait", "done"}
        /\ st[c].warnings = 1
        /\ st[c].pc = "done" =>
             /\ st[c].result = [kind |-> "error", bytes |-> 0, error |-> GenerationFailed]
             /\ st[c].response =
                  [status |-> 500, error |-> "Failed to generate PDF. Please try again later.",
                   body |-> 0]

\* C3 witness: with retry count 0 a call has thrown after its one attempt
C3_Witness ==
  \E c \in Calls :
    /\ pdfRetryAttempts = Num(0)
    /\ st[c].pc = "done"
    /\ st[c].log = <<0>>
    /\ st[c].result.kind = "error"

\* C4: an error generatePDF throws is one of its own generic errors, never
\* the error of a lower step nor its message; after a failed attempt it is
\* the generation-failed error, and the response carries status 500 and
\* that message only.
C4_OnlyGenericErrorSurfaces ==
  \A c \in Calls :
    st[c].result.kind = "error" =>
      /\ st[c].result.error \in {GenerationFailed, GenerationFallback}
      /\ st[c].result.error \notin LowLevelErrors
      /\ st[c].result.error.message \notin LowLevelMessages
      /\ st[c].response.status = 500
      /\ st[c].response.error = st[c].result.error.message
      /\ st[c].response.error \notin LowLevelMessages
      /\ Len(st[c].log) >= 1 => st[c].result.error = GenerationFailed

\* C4 witness: a call has thrown after every one of its attempts failed
C4_Witness ==
  \E c \in Calls :
    /\ st[c].result.kind = "error"
    /\ Len(st[c].log) = 2
    /\ \A k \in 1..Len(st[c].log) : st[c].log[k] = 0
    /\ st[c].response.status = 500

\* C5: when generatePDFInternal returns or throws, page.close() has been
\* called if the attempt holds a page and browser.close() if it holds a
\* browser (the call of browser.close() is the step that ends the attempt).
C5_CloseAttemptedOnEveryExit ==
  [][\A c \in Calls :
       AttemptExits(c) =>
         /\ st[c].page # 0 => st[c].pageCloseTried
         /\ st[c].browser # 0 => st[c].pc = "closeBrowser"]_vars

\* C5 witness: an attempt that had its page and compiled the template has
\* thrown, and its page and browser are closed
C5_Witness ==
  \E c \in Calls : \E b \in BrowserIds :
    /\ Len(st[c].log) >= 1
    /\ st[c].log[1] = 0
    /\ browsers[b].owner = <<c, 1>>
    /\ templateCache[templateName].id = b
    /\ ~browsers[b].running
    /\ browsers[b].page = "none"

\* C6 (as claimed): once a call has returned or thrown, no browser launched
\* by one of its attempts still runs and none of their pages is open.
C6_NoBrowserLeftOpen ==
  \A c \in Calls :
    st[c].pc = "done" =>
      \A b \in BrowserIds :
        browsers[b].owner[1] = c =>
          ~browsers[b].running /\ browsers[b].page = "none"

\* C7: the browser an attempt holds is the one that attempt launched, so
\* no two attempts, of one request or of two, hold the same instance, and
\* the page an attempt holds is a page of its own browser.
C7_FreshBrowserPerAttempt ==
  /\ \A c \in Calls :
       st[c].browser # 0 =>
         /\ browsers[st[c].browser].owner = <<c, st[c].attempts>>
         /\ st[c].page \in {0, st[c].browser}
  /\ \A c, d \in Calls :
       (c # d /\ st[c].browser # 0) => st[c].browser # st[d].browser
  /\ \A c \in Calls : \A k \in 1..Len(st[c].log) :
       st[c].log[k] # 0 => browsers[st[c].log[k]].owner = <<c, k>>

\* C7 witness: a retry holds a browser while another request holds one too
C7_Witness ==
  \E c, d \in Calls :
    /\ c # d
    /\ st[c].attempts = 2
    /\ st[c].browser # 0
    /\ st[d].browser # 0
    /\ browsers[st[c].browser].running
    /\ browsers[st[d].browser].running

\* C8 (as claimed): the template source is read at most once and compiled
\* at most once.
C8_TemplateReadAndCompiledOnce ==
  reads <= 1 /\ compiles <= 1

C10_CachedTemplateIsReturned ==
  [][/\ templateCache[templateName].id # 0 => templateCache'[templateName].id # 0
     /\ \A c \in Calls :
          (st[c].pc = "setUserAgent" /\ st'[c].loadStarted
             /\ templateCache[templateName].id # 0) =>
            /\ st'[c].template = templateCache[templateName]
            /\ st'[c].pc # "readTemplate"
            /\ reads' = reads
            /\ compiles' = compiles
            /\ templateCache' = templateCache]_vars

\* C10 witness: an attempt holds a template that another attempt compiled
C10_Witness ==
  \E c \in Calls :
    /\ st[c].loadStarted
    /\ st[c].template.id # 0
    /\ st[c].template.id # st[c].browser

\* C11: a font file that cannot be read does not fail the attempt: the step
\* that takes the warning leaves the attempt running with the same browser
\* and page, goes on to the next font that is not cached or executes the
\* template, and the only error it can end with is that of the template's
\* own execution; nothing is cached for the font.
C11_UnreadableFontDoesNotFailAttempt ==
  [][\A c \in Calls :
       (st[c].pc = "readFont" /\ st'[c] # st[c] /\ fontWarnings' = fontWarnings + 1) =>
         /\ st'[c].err \in {NoError, RenderError}
         /\ st'[c].err = NoError => st'[c].pc \in {"readFont", "setContent"}
         /\ st'[c].pc = "readFont" => st'[c].fontIdx > st[c].fontIdx
         /\ st'[c].pc = "setContent" => st'[c].template.good
         /\ st'[c].attempts = st[c].attempts
         /\ st'[c].browser = st[c].browser
         /\ st'[c].page = st[c].page
         /\ st'[c].log = st[c].log
         /\ fontCache' = fontCache]_vars

\* C11 witness: the only request made so far has returned the bytes of its
\* first attempt, and a font could not be read on the way
C11_Witness ==
  \E c \in Calls :
    /\ \A d \in Calls \ {c} : st[d].pc = "idle"
    /\ fontWarnings >= 1
    /\ st[c].pc = "done"
    /\ Len(st[c].log) = 1
    /\ st[c].result.kind = "bytes"
    /\ st[c].response.status = 200

\* ------------------------------------------------------------------------
\* Properties of the CV processor
\* ------------------------------------------------------------------------
\* the trimmed values the emptiness rule names: '', '@', 'none' in any letter
\* case, '@' followed by one or more letters or underscores
Sentinel(w) ==
  \/ w \in {<<>>, <<"@">>}
  \/ Len(w) = 4 /\ w[1] \in {"n", "N"} /\ w[2] \in {"o", "O"}
       /\ w[3] \in {"n", "N"} /\ w[4] \in {"e", "E"}
  \/ Len(w) >= 2 /\ w[1] = "@" /\ \A i \in 2..Len(w) : w[i] \in IdentifierChars

\* the raw value is absent or empty by the emptiness rule
Hidden(v) == v.kind # "string" \/ Sentinel(trim(v.s))

\* the string the projection p shows for the raw key k, undefined if none.
\* A sub-field of a work-experience slot counts as not shown when the slot is
\* omitted or holds '' for it
Shown(p, k) ==
  LET sub(slot, part) ==
        IF slot.kind = "object" /\ part # <<>> THEN Str(part) ELSE undefined
  IN CASE k = "certificates" -> p["training_cert_bullet"]
       [] k = "other_qualifications" -> p["other_qualifications_bullet"]
       [] k \in Range(TitleKeys) ->
            LET slot == p[WorkExperienceKeys[SlotOf(TitleKeys, k)]]
            IN sub(slot, IF slot.kind = "object" THEN slot.title ELSE <<>>)
       [] k \in Range(DurationKeys) ->
            LET slot == p[WorkExperienceKeys[SlotOf(DurationKeys, k)]]
            IN sub(slot, IF slot.kind = "object" THEN slot.duration ELSE <<>>)
       [] k \in Range(DutiesKeys) ->
            LET slot == p[WorkExperienceKeys[SlotOf(DutiesKeys, k)]]
            IN sub(slot, IF slot.kind = "object" THEN slot.duties ELSE <<>>)
       [] OTHER -> p[k]

C13_PhoneLaw ==
  (pass >= 1 /\ ~Hidden(data["phone"])) =>
    LET p == trim(data["phone"].s)
    IN processed["phone"] =
         Str(CASE p[1] = "+" -> p
               [] p[1] = "0" -> <<"+", "2", "7">> \o Tail(p)
               [] OTHER -> <<"+", "2", "7">> \o p)

\* C13 witness: the phone '0' alone has become '+27'
C13_Witness ==
  /\ pass = 1
  /\ data["phone"] = Str(<<"0">>)
  /\ processed["phone"] = Str(<<"+", "2", "7">>)

RECURSIVE Pieces(_, _)
Pieces(s, seps) ==
  IF \A i \in 1..Len(s) : s[i] \notin seps THEN <<s>>
  ELSE LET n == Len(s)
           last == CHOOSE i \in 1..n : s[i] \in seps /\ \A j \in (i + 1)..n : s[j] \notin seps
       IN Pieces(SubSeq(s, 1, last - 1), seps) \o <<SubSeq(s, last + 1, n)>>

\* the items of a list value split at seps: trimmed, the empty ones dropped,
\* one per line
RECURSIVE Lines(_)
Lines(pieces) ==
  IF pieces = <<>> THEN <<>>
  ELSE LET item == trim(pieces[1])
           rest == Lines(Tail(pieces))
       IN IF item = <<>> THEN rest
          ELSE IF rest = <<>> THEN item
          ELSE item \o <<"\n">> \o rest

\* C16 (as claimed): a present skills or languages value with a newline is
\* passed through; otherwise it is split on commas, and on '&' only when it
\* holds no comma; the items are trimmed, the empty ones dropped, the rest
\* joined with newlines.
C16_ListSplitting ==
  pass >= 1 =>
    \A k \in {"skills", "languages"} :
      ~Hidden(data[k]) =>
        LET v == trim(data[k].s)
            joined == Lines(Pieces(v, IF includes(v, ",") THEN {","} ELSE {"&"}))
        IN IF includes(v, "\n") THEN processed[k] = Str(v)
           ELSE IF joined = <<>> THEN processed[k] \in {undefined, Str(<<>>)}
           ELSE processed[k] = Str(joined)

\* C16 (amended): a present skills or languages value with a newline is
\* passed through; otherwise it is split on every comma and every '&'; the
\* items are trimmed, the empty ones dropped, the rest joined with newlines in
\* their order; if no item remains the key is absent.
C16_ListSplittingOnBoth ==
  pass >= 1 =>
    \A k \in {"skills", "languages"} :
      ~Hidden(data[k]) =>
        LET v == trim(data[k].s)
            joined == Lines(Pieces(v, {",", "&"}))
        IN IF includes(v, "\n") THEN processed[k] = Str(v)
           ELSE IF joined = <<>> THEN processed[k] = undefined
           ELSE processed[k] = Str(joined)

\* C16 witness: a value with a comma and an '&' has been split at both
C16_Witness ==
  /\ pass = 1
  /\ data["skills"] = Str(<<"n", ",", "o", "&", "e">>)
  /\ processed["skills"] = Str(<<"n", "\n", "o", "\n", "e">>)

\* C17 (as claimed): contentMode is 'standard' exactly when one of the five
\* titles and the tertiary education are present by the emptiness rule, and
\* 'sparse' otherwise.
C17_ContentMode ==
  pass >= 1 =>
    processed["contentMode"] =
      IF (\E i \in Slots : ~Hidden(data[TitleKeys[i]])) /\ ~Hidden(data["tertiary_education"])
      THEN standard ELSE sparse

\* C18 (as claimed): process applied to the strings of its own projection
\* that keep their raw key returns each of them unchanged.
C18_Idempotence ==
  [][(pass = 1 /\ pass' = 2) =>
       \A k \in KeptKeys :
         processed[k].kind = "string" => processed'[k] = processed[k]]_vars

\* C19 (as claimed): no key of the projection holds a string the emptiness
\* rule classifies as empty.
C19_ProjectionHoldsNoSentinel ==
  pass >= 1 =>
    \A k \in ProcessedKeys :
      processed[k].kind = "string" => ~Hidden(processed[k])

\* the keys whose value is one line, and those whose value has lines
SingleLineKeys ==
  {"full_name", "email", "physical_address"} \cup Range(TitleKeys) \cup Range(DurationKeys)
MultiLineKeys ==
  {"career_goal", "education_matric", "tertiary_education", "additional_experience"}
  \cup Range(DutiesKeys) \cup Range(ReferenceKeys)

\* C20 (as claimed): a present single-line value is in the projection
\* trimmed and with every run of whitespace inside it collapsed to one space;
\* a present multi-line value is trimmed at both ends only.
C20_WhitespaceCollapsed ==
  pass >= 1 =>
    /\ \A k \in SingleLineKeys :
         ~Hidden(data[k]) => Shown(processed, k) = normalizeWhitespace(data[k])
    /\ \A k \in MultiLineKeys :
         ~Hidden(data[k]) => Shown(processed, k) = Str(trim(data[k].s))

\* ------------------------------------------------------------------------
\* The order of the steps, retries, waits and the readiness poll
\* ------------------------------------------------------------------------
\* the positions of the finally block
Teardown == {"closePage", "closeBrowser"}

\* the positions a step that succeeded can lead to, teardown aside
Following(pc) ==
  CASE pc = "launch" -> {"poll"}
    [] pc = "poll" -> {"poll", "newPage"}
    [] pc = "newPage" -> {"setUserAgent"}
    [] pc = "setUserAgent" -> {"readTemplate", "readFont", "setContent"}
    [] pc = "readTemplate" -> {"readFont", "setContent"}
    [] pc = "readFont" -> {"readFont", "setContent"}
    [] pc = "setContent" -> {"pdf"}
    [] OTHER -> {}

\* request c takes a step inside one attempt
StepsWithinAttempt(c) ==
  /\ InAttempt(c)
  /\ InAttempt(c)'
  /\ st'[c] # st[c]
  /\ st'[c].log = st[c].log

\* C25: inside an attempt a step that succeeded leads to the next step of
\* the order launch, poll, page, template, fonts (then the execution of the
\* template), content, export, and to no other; a step that failed leads to
\* teardown, and teardown leads to teardown only and keeps the error.  A
\* step past the launch has a browser, a step past the page creation has a
\* page, the content is loaded and exported with a template that was
\* executed, and an attempt that has an error is in teardown.
C25_StepOrder ==
  [][\A c \in Calls :
       /\ StepsWithinAttempt(c) =>
            IF st[c].pc \in Teardown
            THEN st'[c].pc = "closeBrowser" /\ st'[c].err = st[c].err /\ st'[c].pdf = st[c].pdf
            ELSE IF st'[c].err = NoError /\ st'[c].pdf = 0
            THEN st'[c].pc \in Following(st[c].pc)
            ELSE /\ st'[c].pc \in Teardown
                 /\ st'[c].pdf # 0 => st[c].pc = "pdf" /\ st'[c].err = NoError
       /\ (InAttempt(c) /\ st[c].err # NoError => st[c].pc \in Teardown)'
       /\ (st[c].pc \in {"poll", "newPage", "setUserAgent", "readTemplate", "readFont",
                         "setContent", "pdf"} => st[c].browser # 0)'
       /\ (st[c].pc \in {"setUserAgent", "readTemplate", "readFont", "setContent", "pdf"}
             => st[c].page # 0)'
       /\ (st[c].pc \in {"setContent", "pdf"} => st[c].template.good)'
       /\ (st[c].pc = "launch" => st[c].browser = 0 /\ st[c].page = 0)']_vars

\* C25 witness: the content load or the export of an attempt has failed with
\* an error of the engine, and the attempt is closing its page
C25_Witness ==
  \E c \in Calls :
    /\ st[c].pc = "closePage"
    /\ st[c].err \in ExternalErrors
    /\ st[c].template.good
    /\ st[c].pdf = 0

\* C26: an attempt that fails while the call has made fewer than
\* pdfRetryAttempts + 1 attempts leaves the call waiting for its next
\* attempt, whatever the error; the waits end in the launch of that attempt.
C26_EveryFailureIsRetried ==
  [][\A c \in Calls :
       LET remain == ~pdfRetryAttempts.nan /\ st[c].attempts < pdfRetryAttempts.n + 1
       IN /\ (AttemptExits(c) /\ st[c].err # NoError /\ remain) =>
               /\ st'[c].pc \in {"connectionWait", "backoff"}
               /\ st'[c].result = NoResult
          /\ (st[c].pc = "connectionWait" /\ st'[c] # st[c] /\ remain) =>
               /\ st'[c].pc = "backoff"
               /\ st'[c].result = NoResult
          /\ (st[c].pc = "backoff" /\ st'[c] # st[c]) =>
               /\ st'[c].pc = "launch"
               /\ st'[c].attempts = st[c].attempts + 1]_vars

\* C26 witness: the only request made so far is in its second attempt after
\* the first could not load the template
C26_Witness ==
  \E c \in Calls :
    /\ \A d \in Calls \ {c} : st[d].pc = "idle"
    /\ st[c].attempts = 2
    /\ st[c].pc = "poll"
    /\ st[c].log = <<0>>
    /\ reads = 1
    /\ compiles = 0
    /\ faults = 0

\* the error is a dropped connection: its name is 'ConnectionClosedError' or
\* its message contains 'Connection closed'
DroppedConnection(e) ==
  \/ e.name = "ConnectionClosedError"
  \/ e.message \in {"Connection closed.", "Protocol error: Connection closed"}

\* request c is in an attempt that followed a failed one
Retrying(c) == InAttempt(c) /\ st[c].attempts > 1

\* C27: the catch block takes a failure for a dropped connection exactly
\* when the error has the name or the message of one, and of two attempts
\* that followed a failure, the one that followed a dropped connection began
\* after a strictly longer wait than the one that followed another failure.
C27_LongerWaitAfterDroppedConnection ==
  [][\A c \in Calls :
       /\ (AttemptExits(c) /\ st[c].err # NoError) =>
            st'[c].dropped = DroppedConnection(st[c].err)
       /\ \A d \in Calls :
            (Retrying(c) /\ Retrying(d) /\ st[c].dropped /\ ~st[d].dropped =>
               st[c].waited > st[d].waited)']_vars

\* C27 witness: one request retries after a dropped connection while the
\* other retries after another failure
C27_Witness ==
  \E c, d \in Calls :
    /\ Retrying(c) /\ Retrying(d)
    /\ st[c].dropped /\ ~st[d].dropped
    /\ st[c].waited = ConnectionWaitMs + BackoffMs
    /\ st[d].waited = BackoffMs

\* the positions of an attempt past the readiness poll, teardown aside
PastPoll == {"newPage", "setUserAgent", "readTemplate", "readFont", "setContent", "pdf"}

\* C28: the poll asks for the version with fewer than 5 failed queries
\* behind it, so at most 5 times; it fails with 'not ready' on the fifth
\* failed query and no sooner; an attempt that is past the poll or has a
\* page has had a query answered; and an attempt that failed because the
\* browser was disconnected or not ready has no page and there is none in
\* its browser.
C28_ReadinessPoll ==
  [][\A c \in Calls :
       /\ (st[c].retries < maxRetries)'
       /\ (st[c].pc = "poll" /\ st'[c].err = NotReadyError) => st[c].retries + 1 = maxRetries
       /\ (st[c].pc = "poll" /\ st'[c].pc = "poll" /\ st'[c] # st[c]) =>
            st'[c].retries = st[c].retries + 1
       /\ ((st[c].pc \in PastPoll \/ st[c].page # 0) => st[c].version = st[c].browser)'
       /\ (st[c].err \in {DisconnectedError, NotReadyError} =>
             /\ st[c].version = 0
             /\ st[c].page = 0
             /\ st[c].browser # 0
             /\ browsers[st[c].browser].page = "none")']_vars

\* C28 witness: five queries of an attempt have failed and it closes its
\* browser without having had a page
C28_Witness ==
  \E c \in Calls :
    /\ st[c].err = NotReadyError
    /\ st[c].pc = "closeBrowser"
    /\ ~st[c].pageCloseTried

\* C29: a step of one request leaves every other request as it was, its
\* attempt count and its outcome included, and leaves the browser that the
\* other request holds as it was.
C29_CallsAreIsolated ==
  [][\A c, d \in Calls :
       (c # d /\ st'[c] # st[c]) =>
         /\ st'[d] = st[d]
         /\ st[d].browser # 0 => browsers'[st[d].browser] = browsers[st[d].browser]]_vars

\* C29 witness: one request has thrown after a failure of its browser while
\* the other has returned the bytes of its first attempt
C29_Witness ==
  \E c, d \in Calls :
    /\ c # d
    /\ st[c].result.kind = "error"
    /\ faults > 0
    /\ st[d].result.kind = "bytes"
    /\ st[d].attempts = 1

\* ------------------------------------------------------------------------
\* Termination
\* ------------------------------------------------------------------------
\* the steps of request c: each is the settling of an operation the request
\* awaits (a timer, the file system, the browser)
CallStep(c) ==
  \/ Request(c) \/ Launch(c) \/ Poll(c) \/ NewPage(c) \/ SetUserAgent(c)
  \/ ReadTemplate(c) \/ ReadFont(c) \/ SetContent(c) \/ Pdf(c)
  \/ ClosePage(c) \/ CloseBrowser(c) \/ ConnectionWait(c) \/ Backoff(c)

\* the state after construction, for the runs in which every awaited
\* operation settles: one failure of those Faults counts is left to happen
\* (failed version queries and failed template loads are not counted)
InitFair ==
  /\ pdfRetryAttempts \in RetryConfigs
  /\ st = [c \in Calls |-> IdleCall]
  /\ browsers = [b \in BrowserIds |-> NoBrowser]
  /\ templateCache = [n \in TemplateNames |-> NoTemplate]
  /\ fontCache = {}
  /\ templateFile \in {"missing", "bad", "ok"}
  /\ reads = 0
  /\ compiles = 0
  /\ faults = MaxFaults - 1
  /\ fontWarnings = 0
  /\ fontReads = {}
  /\ data = NoData
  /\ processed = NoProjection
  /\ pass = 0
  /\ templateData = NoContext
  /\ NoTraffic
  /\ Elsewhere

\* every operation a request awaits settles
SpecFair == InitFair /\ [][Next]_vars /\ \A c \in Calls : WF_vars(CallStep(c))

\* C30: a call of generatePDF that has started ends: it returns bytes or
\* throws one of the two errors generatePDF raises when attempts are used up.
C30_EveryCallEnds ==
  \A c \in Calls :
    (st[c].pc # "idle") ~>
      (/\ st[c].pc = "done"
       /\ \/ st[c].result.kind = "bytes"
          \/ st[c].result.kind = "error" /\ st[c].result.error \in {GenerationFailed, GenerationFallback})

\* C30 witness: a call has ended by throwing after both of its attempts
\* failed
C30_Witness ==
  \E c \in Calls :
    /\ st[c].pc = "done"
    /\ st[c].result.kind = "error"
    /\ st[c].log = <<0, 0>>

\* ------------------------------------------------------------------------
\* The certificates section and the keys of the projection
\* ------------------------------------------------------------------------
\* C22: the heading of the certificates section is in the projection, with
\* its fixed text, exactly when certificates or other_qualifications is
\* present after the emptiness rule; then each bullet is the trimmed value
\* of its field, or absent if that field is empty; when both fields are
\* empty, the heading and both bullets are absent.
C22_CertificatesAllOrNothing ==
  pass >= 1 =>
    LET shown(k) == IF Hidden(data[k]) THEN undefined ELSE Str(trim(data[k].s))
        present == ~Hidden(data["certificates"]) \/ ~Hidden(data["other_qualifications"])
    IN /\ processed["training_certificates_heading"] # undefined <=> present
       /\ present =>
            /\ processed["training_certificates_heading"] = CertificatesHeading
            /\ processed["training_cert_bullet"] = shown("certificates")
            /\ processed["other_qualifications_bullet"] = shown("other_qualifications")
       /\ ~present =>
            /\ processed["training_certificates_heading"] = undefined
            /\ processed["training_cert_bullet"] = undefined
            /\ processed["other_qualifications_bullet"] = undefined

\* C22 witness: other qualifications are given and the certificates are a
\* sentinel: the heading and the one bullet are in the projection
C22_Witness ==
  /\ pass = 1
  /\ data["certificates"] = Str(<<"@">>)
  /\ data["other_qualifications"] = Str(<<"n">>)
  /\ processed["training_certificates_heading"] = CertificatesHeading
  /\ processed["training_cert_bullet"] = undefined
  /\ processed["other_qualifications_bullet"] = Str(<<"n">>)

\* the raw record d without the keys CVData does not name
Recognized(d) == [k \in RawKeys |-> IF k \in CVDataKeys THEN d[k] ELSE undefined]

\* C23: the projection has no key outside ProcessedCVData and is the one
\* process returns for the record without its unrecognized keys; the
\* render-time context has the keys of the projection and of the fonts and
\* no other, and holds the projection's value under each key of the
\* projection.
C23_UnrecognizedKeysAreDropped ==
  pass >= 1 =>
    /\ DOMAIN processed \subseteq ProcessedKeys
    /\ processed = process(Recognized(data))
    /\ templateData # NoContext =>
         /\ DOMAIN templateData \subseteq ProcessedKeys \cup FontKeys
         /\ pass = 1 => \A k \in ProcessedKeys : templateData[k] = processed[k]
         /\ \A k \in FontKeys : templateData[k] = fonts[k]

\* C23 witness: the raw record carries a value under work_experience_1, a
\* key of the projection that CVData does not name, and nothing for slot 1:
\* the context has been built and holds no such slot
C23_Witness ==
  /\ pass = 1
  /\ data["work_experience_1"] = Str(<<"n">>)
  /\ templateData # NoContext
  /\ templateData["work_experience_1"] = undefined

\* ------------------------------------------------------------------------
\* Authentication
\* ------------------------------------------------------------------------
\* the handler has been entered for request i
Reached(i, handler) == \E n \in 1..Len(reqs[i].trail) : reqs[i].trail[n] = handler

\* request i carries the configured key in its X-API-Key header
HasTheKey(i) == reqs[i].x_api_key.present /\ reqs[i].x_api_key.value = apiKey

\* C24 (as claimed): on the two CV routes the controller, which starts
\* normalization and PDF generation, is entered only for a request that
\* carries the configured key; a request without the key or with another
\* key enters neither validateRequest nor the controller and its answer is
\* a 401.
C24_KeyRequired ==
  \A i \in Requests :
    reqs[i].target \in CVTargets =>
      /\ Reached(i, "controller") => HasTheKey(i)
      /\ ~HasTheKey(i) =>
           /\ ~Reached(i, "validateRequest")
           /\ ~Reached(i, "controller")
           /\ reqs[i].pc = "done" => reqs[i].response.status = 401

\* C24 (amended): on the two CV routes the controller is entered only for a
\* request that carries the configured key; a request without the key or
\* with another key enters neither validateRequest nor the controller, and
\* its answer is a 401 ('API key is required' for no key or an empty one,
\* 'Invalid API key' for another key) unless the body parser or the rate
\* limiter, which run before the route, have answered it: 400 for a body
\* that is not JSON, 500 for a body over the size limit, 429 over the rate
\* limit.
C24_KeyRequiredPastParserAndLimiter ==
  \A i \in Requests :
    reqs[i].target \in CVTargets =>
      /\ Reached(i, "controller") => HasTheKey(i)
      /\ ~HasTheKey(i) =>
           /\ ~Reached(i, "validateRequest")
           /\ ~Reached(i, "controller")
           /\ reqs[i].pc = "done" =>
                IF Reached(i, "authenticateApiKey")
                THEN /\ reqs[i].response.status = 401
                     /\ reqs[i].response.error =
                          IF reqs[i].x_api_key.present /\ reqs[i].x_api_key.value # ""
                          THEN "Invalid API key" ELSE "API key is required"
                ELSE /\ reqs[i].response.status \in {400, 500, 429}
                     /\ reqs[i].response.status = 400 <=> reqs[i].body = "malformed"
                     /\ reqs[i].response.status = 500 <=> reqs[i].body = "tooLarge"

\* C24 witness: a request with the default key, sent to an application
\* that is configured with another key, has been answered with 401 while a
\* request with the configured key has reached the controller
C24_Witness ==
  \E i, j \in Requests :
    /\ apiKey # DefaultApiKey
    /\ reqs[i].target = "POST /cv/generate/base64"
    /\ reqs[i].x_api_key = Header(DefaultApiKey)
    /\ reqs[i].pc = "done"
    /\ reqs[i].response = jsonError(401, "Invalid API key")
    /\ reqs[j].target = "POST /cv/generate"
    /\ Reached(j, "controller")

\* ------------------------------------------------------------------------
\* Font reads, the last attempt, the retry count, errors of close
\* ------------------------------------------------------------------------
\* C31 (as claimed): an fs.readFile of a font path settles only for a path
\* for which none has settled before, whether it succeeded or failed, and no
\* two requests wait for a read of the same path.
C31_FontReadAtMostOnce ==
  [][\A c \in Calls :
       /\ (st[c].pc = "readFont" /\ st'[c] # st[c]) => st[c].fontIdx \notin fontReads
       /\ \A d \in Calls \ {c} :
            (st[c].pc = "readFont" /\ st[d].pc = "readFont") =>
              st[c].fontIdx # st[d].fontIdx]_vars

\* request c leaves generatePDF by throwing in this step
Throws(c) ==
  /\ st[c].pc # "done"
  /\ st'[c].pc = "done"
  /\ st'[c].result.kind = "error"

\* C32 (as claimed): a wait of the catch block is followed by another wait
\* or by the next attempt, and generatePDF throws without having waited
\* since the failure of its last attempt.
C32_NoWaitAfterLastAttempt ==
  [][\A c \in Calls :
       /\ (st[c].pc \in {"connectionWait", "backoff"} /\ st'[c] # st[c]) =>
            st'[c].pc \in {"backoff", "launch"}
       /\ Throws(c) => st'[c].waited = 0]_vars

\* C33 (as claimed): a call of generatePDF that has thrown has made at
\* least one attempt, whatever the configured retry count.
C33_AtLeastOneAttempt ==
  \A c \in Calls :
    (st[c].pc = "done" /\ st[c].result.kind = "error") => Len(st[c].log) >= 1

\* C34: the step in which page.close() settles, resolved or rejected, goes
\* on to browser.close() and keeps the bytes and the error of the attempt;
\* an attempt that leaves the finally block after an export that succeeded
\* returns the bytes of that export, and one that leaves it with an error
\* hands that error to the catch block of generatePDF.
C34_CloseErrorsAreDropped ==
  [][\A c \in Calls :
       /\ (st[c].pc = "closePage" /\ st'[c] # st[c]) =>
            /\ st[c].browser # 0
            /\ st'[c].pc = "closeBrowser"
            /\ st'[c].err = st[c].err
            /\ st'[c].pdf = st[c].pdf
       /\ (st[c].pc \in {"closePage", "closeBrowser"} /\ AttemptExits(c)) =>
            IF st[c].err = NoError
            THEN /\ st[c].pdf # 0
                 /\ st'[c].log = Append(st[c].log, st[c].pdf)
                 /\ st'[c].pc = "done"
                 /\ st'[c].result = [kind |-> "bytes", bytes |-> st[c].pdf, error |-> NoError]
            ELSE /\ st'[c].log = Append(st[c].log, 0)
                 /\ st'[c].result.kind # "bytes"
                 /\ st'[c].dropped =
                      (\/ st[c].err.name = "ConnectionClosedError"
                       \/ st[c].err.message \in ConnectionClosedMessages)]_vars

\* C34 witness: a call has returned the bytes of its first attempt although
\* neither its page nor its browser could be closed
C34_Witness ==
  \E c \in Calls :
    /\ st[c].pc = "done"
    /\ st[c].result.kind = "bytes"
    /\ st[c].log = <<st[c].result.bytes>>
    /\ browsers[st[c].result.bytes].running
    /\ browsers[st[c].result.bytes].page = "open"
    /\ faults = 2

\* the value is a string the emptiness rule of the normalizer keeps
Present(v) == v.kind = "string" /\ ~isEmpty(v)

\* C35 (as claimed): for every string, ifExists renders its positive block
\* exactly when isEmpty classifies the string as present; it renders the
\* negative block for sentinels with whitespace around them and for
\* '@identifier' placeholders.
C35_IfExistsMirrorsIsEmpty ==
  (helper = "ifExists" /\ text.kind = "string") =>
    (output.branch = "fn" <=> Present(text))

\* the lines after the first that are not blank, by position (from 1)
Kept(lines) ==
  {i \in 2..Len(lines) : \E j \in 1..Len(lines[i]) : lines[i][j] \notin WhiteSpace}
\* four consecutive digits stand somewhere in the line
FourDigits(line) ==
  \E i \in 1..(Len(line) - 3) : SubSeq(line, i, i + 3) \in [1..4 -> Digits]

\* C38: for a non-empty text the first element boldFirstLine emits is the
\* title with the first line; every later line that is not blank emits one
\* element and the blank ones none; the element of the line in second
\* position is a subtitle whatever the line holds, that of any other line
\* with four consecutive digits a date, that of every remaining line a
\* description; the elements stand in the order of their lines.
C38_BoldFirstLineClassifies ==
  (helper = "boldFirstLine" /\ text.kind = "string" /\ text.s # <<>>) =>
    LET lines == split(text.s, "\n")
        at(i) == 1 + Cardinality({j \in Kept(lines) : j <= i})
    IN /\ Len(output.html) = 1 + Cardinality(Kept(lines))
       /\ output.html[1] =
            [class |-> "timeline-title", text |-> escapeExpression(lines[1])]
       /\ \A i \in Kept(lines) :
            /\ output.html[at(i)].text = escapeExpression(lines[i])
            /\ output.html[at(i)].class =
                 IF i = 2 THEN "timeline-subtitle"
                 ELSE IF FourDigits(lines[i]) THEN "timeline-date"
                 ELSE "timeline-desc"

\* C38 witness: boldFirstLine has returned for a text of four lines, a
\* title, a year in second position, a blank line and a line with a year:
\* it emitted the title, a subtitle and a date
C38_Witness ==
  /\ helper = "boldFirstLine"
  /\ text = Str(<<"n", "\n", "0", "0", "0", "0", "\n", " ", "\n", "n", "0", "0", "0", "0", "e">>)
  /\ [i \in 1..Len(output.html) |-> output.html[i].class] =
       <<"timeline-title", "timeline-subtitle", "timeline-date">>

\* the process has received a signal
Signalled == proc.signals # <<>>
\* the time at which the forced shutdown of the first signal is due
Deadline == proc.signals[1].at + ForceShutdownMs

\* C37: a process that exited with code 0 had received SIGTERM or SIGINT,
\* its HTTP server had closed with no request pending and cleanup had run;
\* a process that has received a signal does not run past 30 seconds after
\* it, the forced shutdown exits with code 1, and every process that has
\* received a signal exits.
C37_ShutdownExitCodes ==
  /\ [](/\ (proc.exited /\ proc.exitCode = 0) =>
            /\ Signalled
            /\ proc.server = "closed"
            /\ proc.pending = 0
            /\ proc.cleanups >= 1
            /\ proc.now <= Deadline
        /\ (Signalled /\ ~proc.exited) => proc.now <= Deadline
        /\ (proc.exited /\ proc.exitBy = "timeout") =>
            /\ proc.exitCode = 1
            /\ proc.now = Deadline)
  /\ (Signalled ~> proc.exited)

\* C37 witness: the process exited with code 0 some time after the signal,
\* once the requests that were pending when the signal came were answered
C37_Witness ==
  /\ proc.exited
  /\ proc.exitCode = 0
  /\ proc.exitBy = "close"
  /\ proc.now > proc.signals[1].at

\* C36 (as claimed): a non-empty string supplied in a request body under
\* any key of the raw record that process reads, designation, photo_url
\* and splash_image among them, is still in the body of a request that
\* passed validation when the body is handed to process.
C36_ValidationKeepsProcessedFields ==
  \A k \in CVDataKeys :
    (validation = "passed" /\ Present(reqBody[k])) => data[k] = convert(reqBody[k])
====
